---- MODULE Spec2Model ----
(***************************************************************************)
(* Verification model of the WASSER PRO catalogue and price-list tool.     *)
(*                                                                         *)
(* Money is held in fixed point: every amount is an integer number of      *)
(* 1/Unit currency units, so that the two successive percentage markups    *)
(* of the price formula are computed exactly.  Markups are whole percents. *)
(***************************************************************************)
EXTENDS Integers, Sequences, FiniteSets, TLC

VARIABLES
    product,      \* the product handed to a price calculator
    materials,    \* the material list (sequence of [id, price])
    settings,     \* PriceSettings: [productTypes, finishTypes]
    priceResult,  \* what the last calculator call returned (with its name)
    computed,     \* price-list page: the priced rows
    options,      \* price-list page: PriceListOptions
    pdfDoc,       \* what handleGeneratePdf laid out (<<>> before the click)
    printDoc,     \* what PrintPreviewHtml rendered (<<>> before the render)
    wasserDoc,    \* what WasserPDFGenerator.generateDoc laid out
    productOrder, \* collections page: the stored product_order of the collection
    editor,       \* DnDEditor state: [open, order, draggingId]
    movesOnly,    \* history: only reorder drops happened since the editor opened
    applied,      \* history: <<>>, or <<[before, after, shown, movesOnly]>> since the last Apply
    items,        \* materials page: the catalogue (sequence of Material)
    lastImport,   \* history: <<>>, or <<[uniqueBefore, imported]>> right after importCsv
    value,        \* tech-card editor: the tech card of the product being edited
    aiResolved,   \* product modal: the AI positions matched to the catalogue
    ls,           \* localStorage: the price settings stored under each key (<<>> when absent)
    route,        \* which page is mounted
    pageSettings, \* settings page: its settings state
    pagePrice,    \* products page: its price state
    shownPrice,   \* <<>>, or <<[page, price]>>: the price a page last computed for the product
    saved,        \* history: <<>>, or the settings last saved on the settings page
    aiReq,        \* AiService: <<>>, or the call in progress [task, input, timeoutMs]
    gw,           \* gateway: "idle", "waiting" (callClaude awaits Anthropic), "aborted", "answered"
    clock,        \* seconds since callClaude armed its timer
    resp,         \* <<>>, or what fetch gave AiService.post: [status, body], or [rejected]
    aiResult,     \* <<>>, or <<[value, threw]>>: what the AiService method returned
    genEnv,       \* PDF generation: what the network serves (scripts, font, images) and the options
    win,          \* window.jspdf: [jsPDF, autoTable] as the loaded scripts left it
    loadingPromise, \* ensureJsPdf: "none", "resolved" or "rejected"
    genOut,       \* <<>>, or <<[by, saved, error, warning]>>: how the last generation ended
    localStore,   \* localStorage shared by the tabs: key -> <<>> or <<stored list>>
    tabs,         \* per tab: the page shown, its React state, its pending effect and log call
    nextId,       \* ids handed out so far (utils.id, crypto.randomUUID)
    lastLog,      \* <<>>, or <<[tab, before, record, after]>>: the last log call that finished
    lastWrite,    \* <<>>, or <<[tab, key, basis, before, written, after]>>: the last write of a list
    actors,       \* the tabs that have done anything
    supabaseCfg,  \* wasser_supabase_cfg in localStorage: <<>> or <<[enabled, url, anonKey]>>
    localMaterials, \* wasser_materials as the sync adapter reads and writes it
    remoteMaterials, \* the materials table of the remote store, latest update first
    channel,      \* whether a realtime channel is subscribed
    rawStore,     \* localStorage as text: key -> <<>> (no item) or <<stored text>>
    lastRead,     \* <<>>, or <<[by, key, raw, fallback, result, threw]>>: the last read of the store
    catalogue,    \* CSV round trip: the materials of the page that exports
    csvFile,      \* <<>>, or <<lines>>: the exported file, each line a sequence of characters
    reimported,   \* <<>>, or <<items>>: an empty catalogue after importing csvFile
    pageRows,     \* price-list page: the computed rows
    pageOptions,  \* its options groupBy, styleKey, brandColor
    groupsMemo,   \* the groups memo of the last render
    legacyGroups, \* <<>>, or <<group keys>>: the groups generatePriceListPDF rendered, in order
    lastTheme,    \* <<>>, or <<[by, key, theme]>>: the theme the last generation worked with
    pulls,        \* realtime pulls in the order they started: [phase, data, error]
    notices,      \* change notifications not yet delivered to the channel's handler
    loadedFontsHome, \* loadedFonts of the price-list page: font names registered so far
    loadedFontsWasser, \* loadedFonts of WasserPDFGenerator
    fontDoc,      \* <<>>, or <<[by, fontName, cached, vfs, active, reported]>>: the last document and what registerFont reported
    cdn,          \* what the network gives the loader now: [cdnJsPdf, cdnAutoTable, attaches]
    ensureLog,    \* the calls of ensureJsPdf so far: [ok, reachable] each
    lastSync      \* <<>>, or <<[op, cfg, calls, threw, localBefore, localAfter]>>: the last sync operation

priceVars == <<product, materials, settings, priceResult>>
docVars == <<computed, options, pdfDoc, printDoc, wasserDoc>>
dndVars == <<productOrder, editor, movesOnly, applied>>
matVars == <<items, lastImport>>
tcVars == <<value, aiResolved>>
coreVars == <<priceVars, docVars, dndVars, matVars, tcVars>>
stVars == <<ls, route, pageSettings, pagePrice, shownPrice, saved>>
aiVars == <<aiReq, gw, clock, resp, aiResult>>
genVars == <<genEnv, win, loadingPromise, genOut>>
tabVars == <<localStore, tabs, nextId, lastLog, lastWrite, actors>>
syncVars == <<supabaseCfg, localMaterials, remoteMaterials, channel, lastSync>>
readVars == <<rawStore, lastRead>>
csvVars == <<catalogue, csvFile, reimported>>
pageVars == <<pageRows, pageOptions, groupsMemo, legacyGroups, lastTheme>>
pullVars == <<pulls, notices>>
fontVars == <<loadedFontsHome, loadedFontsWasser, fontDoc>>
loadVars == <<cdn, ensureLog>>
extVars == <<stVars, aiVars, genVars, tabVars, syncVars, readVars, csvVars, pageVars, pullVars, fontVars, loadVars>>
vars == <<coreVars, extVars>>

----------------------------------------------------------------------------
(* Bounds of the model *)

MaxLines == 2        \* longest tech card given to a calculator
MaxQty == 2          \* largest quantity of a tech-card line
MaxRows == 3         \* most rows of a price list
MaxProducts == 3     \* products known to the collections page
MaxMaterials == 2    \* most materials of the catalogue
MaxCard == 2         \* most lines of the edited tech card
MaxCardQty == 2      \* largest quantity of a line of the edited tech card
MaxIds == 4          \* most ids (products, materials, log records) the two tabs hand out
MaxVersion == 2      \* highest version of a synchronised material

----------------------------------------------------------------------------
(* Generic helpers *)

Unit == 10000

RECURSIVE SumSeq(_)
SumSeq(s) == IF s = <<>> THEN 0 ELSE Head(s) + SumSeq(Tail(s))

\* Array.prototype.find on the id field: <<>> when nothing matches,
\* otherwise a one-element tuple holding the first match.
RECURSIVE FindById(_, _)
FindById(list, id) ==
    IF list = <<>> THEN <<>>
    ELSE IF Head(list).id = id THEN <<Head(list)>>
    ELSE FindById(Tail(list), id)

\* Number(x) || 0 : a raw quantity is <<>> (not a number) or <<n>>.
NumberOrZero(raw) == IF raw = <<>> THEN 0 ELSE raw[1]

\* Upper bound of all sequences over S of length at most n.
SeqUpTo(S, n) == UNION {[1..k -> S] : k \in 0..n}

----------------------------------------------------------------------------
(* Price calculators *)

\* MaterialCost with an unresolved material counted at a default price
RECURSIVE MaterialCostDanglingCounts(_, _)
MaterialCostDanglingCounts(tc, mats) ==
    IF tc = <<>> THEN 0
    ELSE LET it == tc[Len(tc)]
             m  == FindById(mats, it.materialId)
             price == IF m = <<>> THEN 1 ELSE m[1].price
         IN MaterialCostDanglingCounts(SubSeq(tc, 1, Len(tc) - 1), mats)
              + NumberOrZero(it.quantity) * price * Unit

\* reduce over the tech card: sum + (Number(it.quantity)||0) * (m?.price||0)
RECURSIVE MaterialCost(_, _)
MaterialCost(tc, mats) ==
    IF tc = <<>> THEN 0
    ELSE LET it == tc[Len(tc)]
             m  == FindById(mats, it.materialId)
             price == IF m = <<>> THEN 0 ELSE m[1].price
         IN MaterialCost(SubSeq(tc, 1, Len(tc) - 1), mats)
              + NumberOrZero(it.quantity) * price * Unit

\* ApplyMarkup taking the markup off instead of adding it
ApplyMarkupAsDiscount(amount, markup) == (amount \div 100) * (100 - markup)

\* base * (1 + markup/100), exact because base is a multiple of 100
ApplyMarkup(amount, markup) == (amount \div 100) * (100 + markup)

\* PriceFrom with the finish markup applied to basePrice, not to afterType
PriceFromUnchained(materialCost, p, st) ==
    LET pt == FindById(st.productTypes, p.product_type_id)
        workCost == IF pt = <<>> THEN 0 ELSE pt[1].workCost * Unit
        basePrice == materialCost + workCost
        afterType == ApplyMarkup(basePrice, IF pt = <<>> THEN 0 ELSE pt[1].markup)
        ft == FindById(st.finishTypes, p.finish_type_id)
        finishPart == ApplyMarkup(basePrice, IF ft = <<>> THEN 0 ELSE ft[1].markup)
    IN [materialCost |-> materialCost, workCost |-> workCost,
        basePrice |-> basePrice, finalPrice |-> afterType + finishPart - basePrice]

\* the part the three calculators share once the tech card is summed
PriceFrom(materialCost, p, st) ==
    LET pt == FindById(st.productTypes, p.product_type_id)
        workCost == IF pt = <<>> THEN 0 ELSE pt[1].workCost * Unit
        basePrice == materialCost + workCost
        afterType == ApplyMarkup(basePrice, IF pt = <<>> THEN 0 ELSE pt[1].markup)
        ft == FindById(st.finishTypes, p.finish_type_id)
        finalPrice == ApplyMarkup(afterType, IF ft = <<>> THEN 0 ELSE ft[1].markup)
    IN [materialCost |-> materialCost, workCost |-> workCost,
        basePrice |-> basePrice, finalPrice |-> finalPrice]

ZeroPrice == [materialCost |-> 0, workCost |-> 0, basePrice |-> 0, finalPrice |-> 0]

\* calcPrice of the price-list page
calcPrice(p, mats, st) ==
    IF Len(p.tech_card) = 0 THEN ZeroPrice
    ELSE PriceFrom(MaterialCost(p.tech_card, mats), p, st)

\* calculateProductPrice of the legacy PDF generator
calculateProductPrice(p, mats, st) ==
    IF Len(p.tech_card) = 0 THEN ZeroPrice
    ELSE PriceFrom(MaterialCost(p.tech_card, mats), p, st)

\* calcPrice of the products page: no early return on an empty tech card
calcPriceProducts(p, mats, st) ==
    PriceFrom(MaterialCost(p.tech_card, mats), p, st)

----------------------------------------------------------------------------
(* Price-list document: grouping, columns, totals *)

\* the candidate columns in the order buildColumns pushes them
ColumnOrder ==
    <<"image", "article", "name", "productType", "finishType", "basePrice", "finalPrice">>

\* buildColumns: the enabled columns, in the fixed order
buildColumns(opts) == SelectSeq(ColumnOrder, LAMBDA k : k \in opts.columns)

\* Array.prototype.findIndex for the finalPrice column (0-based, -1 if absent)
PriceColIdx(cols) ==
    IF \E i \in 1..Len(cols) : cols[i] = "finalPrice"
    THEN (CHOOSE i \in 1..Len(cols) : cols[i] = "finalPrice") - 1
    ELSE -1

Max(a, b) == IF a >= b THEN a ELSE b

\* a totals row: the label left of the price column, the amount in it
TotalsRow(cols, label, amount) ==
    LET idx == PriceColIdx(cols)
    IN [i \in 1..Len(cols) |->
          IF i - 1 = Max(0, idx - 1) THEN <<label>>
          ELSE IF i - 1 = idx THEN <<"money", amount>>
          ELSE <<>>]

\* reduce((sum, r) => sum + (Number(r.finalPrice) || 0), 0)
SumFinalPrice(list) == SumSeq([i \in 1..Len(list) |-> list[i].finalPrice])

NoTypeKey == "no-type"                \* the label 'Без типа'
NoCollectionKey == "no-collection"    \* the label 'Без коллекции'
AllKey == "all"                       \* the label 'Все товары'

TypeKey(row) == IF row.productType = "" THEN NoTypeKey ELSE row.productType
CollectionKey(row) == IF row.collectionId = "" THEN NoCollectionKey ELSE row.collectionId

\* GroupRows that skips the rows whose key is the fallback label
RECURSIVE GroupRowsDropUnset(_, _, _)
GroupRowsDropUnset(acc, rs, ks) ==
    IF rs = <<>> THEN acc
    ELSE LET k == Head(ks)
         IN IF k \in {NoTypeKey, NoCollectionKey}
            THEN GroupRowsDropUnset(acc, Tail(rs), Tail(ks))
            ELSE IF \E j \in 1..Len(acc) : acc[j].key = k
            THEN LET j == CHOOSE j \in 1..Len(acc) : acc[j].key = k
                 IN GroupRowsDropUnset([acc EXCEPT ![j].items = Append(@, Head(rs))],
                                       Tail(rs), Tail(ks))
            ELSE GroupRowsDropUnset(Append(acc, [key |-> k, items |-> <<Head(rs)>>]),
                                    Tail(rs), Tail(ks))

\* GroupRows opening the group of a new key in front of the others
RECURSIVE GroupRowsNewFirst(_, _, _)
GroupRowsNewFirst(acc, rs, ks) ==
    IF rs = <<>> THEN acc
    ELSE LET k == Head(ks)
         IN IF \E j \in 1..Len(acc) : acc[j].key = k
            THEN LET j == CHOOSE j \in 1..Len(acc) : acc[j].key = k
                 IN GroupRowsNewFirst([acc EXCEPT ![j].items = Append(@, Head(rs))],
                                      Tail(rs), Tail(ks))
            ELSE GroupRowsNewFirst(<<[key |-> k, items |-> <<Head(rs)>>]>> \o acc,
                                   Tail(rs), Tail(ks))

\* the Map-building loop: a new key opens a group at the end (insertion
\* order), a known key appends the row to its group
RECURSIVE GroupRows(_, _, _)
GroupRows(acc, rs, ks) ==
    IF rs = <<>> THEN acc
    ELSE LET k == Head(ks)
         IN IF \E j \in 1..Len(acc) : acc[j].key = k
            THEN LET j == CHOOSE j \in 1..Len(acc) : acc[j].key = k
                 IN GroupRows([acc EXCEPT ![j].items = Append(@, Head(rs))],
                              Tail(rs), Tail(ks))
            ELSE GroupRows(Append(acc, [key |-> k, items |-> <<Head(rs)>>]),
                           Tail(rs), Tail(ks))

\* the groups memo of the price-list page
groups(rows, groupBy) ==
    IF groupBy = "none" THEN <<[key |-> AllKey, items |-> rows]>>
    ELSE IF groupBy = "productType"
    THEN GroupRows(<<>>, rows, [i \in 1..Len(rows) |-> TypeKey(rows[i])])
    ELSE IF groupBy = "collection"
    THEN GroupRows(<<>>, rows, [i \in 1..Len(rows) |-> CollectionKey(rows[i])])
    ELSE <<[key |-> AllKey, items |-> rows]>>

\* groupKey of generatePriceListPDF: a prefix and the name of the type or
\* of the collection
groupKey(row, groupBy) ==
    IF groupBy = "collection" THEN [prefix |-> "collection: ", label |-> CollectionKey(row)]
    ELSE IF groupBy = "type" THEN [prefix |-> "type: ", label |-> TypeKey(row)]
    ELSE [prefix |-> "all", label |-> ""]

\* Object.keys of the groups object: keys that are array indices come
\* first, the others follow in the order of their insertion; a key with a
\* prefix is no array index
ObjectKeys(inserted) ==
    SelectSeq(inserted, LAMBDA k : k.prefix = "" /\ k.label \in {"0", "1", "2"})
        \o SelectSeq(inserted, LAMBDA k : ~(k.prefix = "" /\ k.label \in {"0", "1", "2"}))

\* the groups of generatePriceListPDF in the order they are rendered
legacyGroupNames(rows, groupBy) ==
    LET gs == GroupRows(<<>>, rows, [i \in 1..Len(rows) |-> groupKey(rows[i], groupBy)])
    IN ObjectKeys([i \in 1..Len(gs) |-> gs[i].key])

RowIds(list) == [i \in 1..Len(list) |-> list[i].id]

\* handleGeneratePdf: one table per group, then the summary table
handleGeneratePdf(rows, opts) ==
    LET gs == groups(rows, opts.groupBy)
        cols == buildColumns(opts)
        priceColIdx == PriceColIdx(cols)
        Table(g) ==
            LET groupTotal == SumFinalPrice(g.items)
            IN [key |-> g.key, body |-> RowIds(g.items), groupTotal |-> groupTotal,
                foot |-> IF opts.showGroupTotals /\ priceColIdx >= 0
                         THEN <<TotalsRow(cols, "group-total", groupTotal)>>
                         ELSE <<>>]
        showGrand == opts.showGrandTotal /\ Len(cols) > 0 /\ priceColIdx >= 0
        grandTotal == SumFinalPrice(rows)
    IN [cols |-> cols,
        tables |-> [i \in 1..Len(gs) |-> Table(gs[i])],
        grandTotal |-> IF showGrand THEN <<grandTotal>> ELSE <<>>,
        summary |-> IF showGrand
                    THEN <<TotalsRow(cols, "grand-total", grandTotal)>>
                    ELSE <<>>]

\* PrintPreviewHtml that renders the grand total whenever it is switched on
PrintPreviewHtmlAlwaysGrand(gs, columns, showGroupTotals, showGrandTotal) ==
    LET priceIdx == PriceColIdx(columns)
        grandTotal == SumSeq([i \in 1..Len(gs) |-> SumFinalPrice(gs[i].items)])
        Table(g) ==
            LET groupTotal == SumFinalPrice(g.items)
            IN [key |-> g.key, body |-> RowIds(g.items), groupTotal |-> groupTotal,
                foot |-> IF showGroupTotals /\ priceIdx >= 0
                         THEN <<TotalsRow(columns, "group-total", groupTotal)>>
                         ELSE <<>>]
    IN [cols |-> columns,
        tables |-> [i \in 1..Len(gs) |-> Table(gs[i])],
        grandTotal |-> <<grandTotal>>,
        summary |-> IF showGrandTotal
                    THEN <<TotalsRow(columns, "grand-total", grandTotal)>>
                    ELSE <<>>]

\* PrintPreviewHtml: the same groups and columns as props, its own totals
PrintPreviewHtml(gs, columns, showGroupTotals, showGrandTotal) ==
    LET priceIdx == PriceColIdx(columns)
        grandTotal == SumSeq([i \in 1..Len(gs) |-> SumFinalPrice(gs[i].items)])
        Table(g) ==
            LET groupTotal == SumFinalPrice(g.items)
            IN [key |-> g.key, body |-> RowIds(g.items), groupTotal |-> groupTotal,
                foot |-> IF showGroupTotals /\ priceIdx >= 0
                         THEN <<TotalsRow(columns, "group-total", groupTotal)>>
                         ELSE <<>>]
    IN [cols |-> columns,
        tables |-> [i \in 1..Len(gs) |-> Table(gs[i])],
        grandTotal |-> <<grandTotal>>,
        summary |-> IF showGrandTotal /\ priceIdx >= 0
                    THEN <<TotalsRow(columns, "grand-total", grandTotal)>>
                    ELSE <<>>]

\* the fixed column list of WasserPDFGenerator, the price column last
WasserCols ==
    <<"article", "name", "type", "dimensions", "material", "color", "finalPrice">>

\* grandTotal += seriesTotal over the first n series
RECURSIVE AccumulateTotals(_, _)
AccumulateTotals(series, n) ==
    IF n = 0 THEN 0
    ELSE AccumulateTotals(series, n - 1) + SumFinalPrice(series[n].items)

\* WasserPDFGenerator.generateDoc: one table per series, then the summary
generateDoc(series, documentData) ==
    LET Table(g) ==
            LET seriesTotal == SumFinalPrice(g.items)
            IN [key |-> g.key, body |-> RowIds(g.items), groupTotal |-> seriesTotal,
                foot |-> IF documentData.showGroupTotals
                         THEN <<TotalsRow(WasserCols, "series-total", seriesTotal)>>
                         ELSE <<>>]
        grandTotal == AccumulateTotals(series, Len(series))
    IN [cols |-> WasserCols,
        tables |-> [i \in 1..Len(series) |-> Table(series[i])],
        grandTotal |-> <<grandTotal>>,
        summary |-> IF documentData.showGrandTotal /\ Len(series) > 0
                    THEN <<TotalsRow(WasserCols, "grand-total", grandTotal)>>
                    ELSE <<>>]

(* Inputs of the document specification *)

TypeNames == {"", "A", "B"}
CollectionIds == {"", "c1"}

\* the price a row of the model carries, one value per (type, collection)
RowPrice(t, c) ==
    (IF t = "" THEN 0 ELSE IF t = "A" THEN 100 ELSE 250) + (IF c = "" THEN 0 ELSE 15)

RowShapes ==
    {[productType |-> t, collectionId |-> c, finalPrice |-> RowPrice(t, c)] :
        t \in TypeNames, c \in CollectionIds}

\* rows carry their position as id, as products.map keeps the product order
ComputedRows ==
    {[i \in 1..Len(sh) |-> [id |-> i, productType |-> sh[i].productType,
                            collectionId |-> sh[i].collectionId,
                            finalPrice |-> sh[i].finalPrice]] :
        sh \in SeqUpTo(RowShapes, MaxRows)}

DefaultColumns == {"article", "name", "productType", "finishType", "finalPrice"}

ColumnChoices ==
    {DefaultColumns, {"finalPrice"}, {"article", "name"}, {}}

OptionsSet ==
    [groupBy : {"none", "productType", "collection"},
     columns : ColumnChoices,
     showGroupTotals : BOOLEAN,
     showGrandTotal : BOOLEAN]

DefaultOptions ==
    [groupBy |-> "productType", columns |-> DefaultColumns,
     showGroupTotals |-> TRUE, showGrandTotal |-> TRUE]

DocIdle ==
    /\ computed = <<>>
    /\ options = DefaultOptions
    /\ pdfDoc = <<>>
    /\ printDoc = <<>>
    /\ wasserDoc = <<>>

----------------------------------------------------------------------------
(* Collection editor: drag-and-drop reordering *)

ProductIds == 1..MaxProducts      \* the products that exist
DeletedId == 0                    \* an id whose product no longer exists
NoDrag == -1                      \* draggingId = null

Range(f) == {f[i] : i \in DOMAIN f}
NoDuplicates(f) == \A i, j \in DOMAIN f : f[i] = f[j] => i = j

\* arr.filter((id) => id !== val)
Without(arr, val) == SelectSeq(arr, LAMBDA x : x # val)

\* arr.indexOf(val): 0-based, -1 when absent
IndexOf(arr, val) ==
    IF \E i \in 1..Len(arr) : arr[i] = val
    THEN (CHOOSE i \in 1..Len(arr) : arr[i] = val /\ \A j \in 1..(i - 1) : arr[j] # val) - 1
    ELSE -1

\* copy.splice(idx, 0, val): a negative idx counts from the end
insertAt(arr, idx, val) ==
    LET at == IF idx < 0 THEN Max(Len(arr) + idx, 0)
              ELSE IF idx > Len(arr) THEN Len(arr) ELSE idx
    IN SubSeq(arr, 1, at) \o <<val>> \o SubSeq(arr, at + 1, Len(arr))

\* the order onDropOverItem hands to setOrder (the order itself when it returns early)
onDropOverItem(order, draggingId, targetId) ==
    IF draggingId = NoDrag \/ draggingId = targetId THEN order
    ELSE LET next == Without(order, draggingId)
         IN insertAt(next, IndexOf(next, targetId), draggingId)

\* onDropToListEnd appending without removing the dragged id first
onDropToListEndKeepOld(order, draggingId) ==
    IF draggingId = NoDrag THEN order
    ELSE order \o <<draggingId>>

\* the order onDropToListEnd hands to setOrder
onDropToListEnd(order, draggingId) ==
    IF draggingId = NoDrag THEN order
    ELSE Without(order, draggingId) \o <<draggingId>>

\* the cards of the left column: the ids of order whose product exists
inCollection(order) == SelectSeq(order, LAMBDA id : id \in ProductIds)

\* the cards of the right column
available(order) == ProductIds \ Range(order)

ClosedEditor == [open |-> FALSE, order |-> <<>>, draggingId |-> NoDrag]

StoredOrders ==
    {o \in SeqUpTo(ProductIds \cup {DeletedId}, MaxProducts + 1) : NoDuplicates(o)}

DndIdle ==
    /\ productOrder = <<>>
    /\ editor = ClosedEditor
    /\ movesOnly = TRUE
    /\ applied = <<>>

----------------------------------------------------------------------------
(* Materials page: manual add, delete, CSV import *)

\* String.prototype.toLowerCase on the articles of the model
Lower(a) == IF a = "X1" THEN "x1" ELSE a

\* String(m.article || '').trim().toLowerCase(): the merge key of a material
ArticleKey(m) == Lower(m.article)

DefaultUnit == "pcs"                  \* the unit 'шт'

\* crypto.randomUUID(): an id no material of the list carries
FreshId(list) ==
    CHOOSE n \in 1..(Len(list) + 1) : \A i \in 1..Len(list) : list[i].id # n

\* coerceMaterial over the cells of one CSV line: no material without a name
coerceMaterial(x) ==
    IF x.name = "" THEN <<>>
    ELSE <<[name |-> x.name, article |-> x.article, unit |-> x.unit, price |-> x.price]>>

\* parseCsvToMaterials: one material per line that coerceMaterial accepts
RECURSIVE parseCsvToMaterials(_)
parseCsvToMaterials(lines) ==
    IF lines = <<>> THEN <<>>
    ELSE coerceMaterial(Head(lines)) \o parseCsvToMaterials(Tail(lines))

\* new Map(items.map((m) => [key, m])).get(key): the last material with the
\* key, as <<id>>, or <<>>
MapByArticleGet(list, key) ==
    IF \E i \in 1..Len(list) : ArticleKey(list[i]) = key
    THEN LET i == CHOOSE i \in 1..Len(list) :
                     /\ ArticleKey(list[i]) = key
                     /\ \A j \in (i + 1)..Len(list) : ArticleKey(list[j]) # key
         IN <<list[i].id>>
    ELSE <<>>

\* x || y on strings, and on numbers
OrElse(x, y) == IF x = "" THEN y ELSE x
NumOrElse(x, y) == IF x = 0 THEN y ELSE x

\* the loop of importCsv: a line whose article is in the catalogue as it was
\* before the import updates that material, any other line is put in front
RECURSIVE MergeImported(_, _, _)
MergeImported(merged, imported, original) ==
    IF imported = <<>> THEN merged
    ELSE LET it == Head(imported)
             key == ArticleKey(it)
             existing == IF key # "" THEN MapByArticleGet(original, key) ELSE <<>>
         IN IF existing # <<>>
            THEN MergeImported(
                     [i \in 1..Len(merged) |->
                         IF merged[i].id = existing[1]
                         THEN [merged[i] EXCEPT
                                  !.name = OrElse(it.name, @),
                                  !.unit = OrElse(it.unit, @),
                                  !.price = NumOrElse(it.price, @)]
                         ELSE merged[i]],
                     Tail(imported), original)
            ELSE MergeImported(
                     <<[id |-> FreshId(merged), name |-> it.name, article |-> it.article,
                        unit |-> it.unit, price |-> it.price]>> \o merged,
                     Tail(imported), original)

(* Inputs of the materials specification *)

\* the CSV lines of the model, as cells name, article, unit, price: two full
\* lines with the same article in different case, a line with an empty unit
\* and a zero price, a line without a name, a line without an article
CsvLines ==
    {[name |-> "A", article |-> "x1", unit |-> "m2", price |-> 10],
     [name |-> "B", article |-> "X1", unit |-> "kg", price |-> 20],
     [name |-> "B", article |-> "X1", unit |-> "", price |-> 0],
     [name |-> "", article |-> "x1", unit |-> "m2", price |-> 10],
     [name |-> "A", article |-> "", unit |-> "m2", price |-> 10]}

\* CSV files of one or two lines
CsvFiles == {<<l>> : l \in CsvLines} \cup {<<l1, l2>> : l1 \in CsvLines, l2 \in CsvLines}

\* what the add form can submit
FormNames == {"", "A"}
FormArticles == {"", "x1", "X1"}
FormUnits == {"", "m2"}
FormPrices == {0, 10}

MatIdle ==
    /\ items = <<>>
    /\ lastImport = <<>>

----------------------------------------------------------------------------
(* Tech-card editor: add, edit, remove, Excel import, AI suggestions *)

\* the material catalogue the editor and the product modal work with
Catalog ==
    <<[id |-> "m1", name |-> "ldsp", article |-> "x1"],
      [id |-> "m2", name |-> "edge", article |-> "Y1"]>>

\* toLowerCase on the articles and names of the tech-card model
LowerTc(a) == IF a = "X1" THEN "x1" ELSE IF a = "Y1" THEN "y1" ELSE a

\* String.prototype.includes on the names of the model
Includes(name, part) == part = name \/ (name = "edge" /\ part = "ed")

\* rid() / utils.id(): a line id used neither in the card nor in the pending list
FreshLineId(used) == CHOOSE n \in 1..(Cardinality(used) + 1) : n \notin used

LineIds(card) == {card[i]._techCardId : i \in 1..Len(card)}

\* new Map(materials.map((m) => [article key, m.id])).get(article)
IdByArticle(article) ==
    IF \E i \in 1..Len(Catalog) : LowerTc(Catalog[i].article) = article
    THEN LET i == CHOOSE i \in 1..Len(Catalog) :
                     /\ LowerTc(Catalog[i].article) = article
                     /\ \A j \in (i + 1)..Len(Catalog) : LowerTc(Catalog[j].article) # article
         IN <<Catalog[i].id>>
    ELSE <<>>

\* parseTechCardExcel taking any row with a known article, whatever its quantity
RECURSIVE parseTechCardExcelAnyQty(_, _)
parseTechCardExcelAnyQty(rows, used) ==
    IF rows = <<>> THEN <<>>
    ELSE LET row == Head(rows)
             article == LowerTc(row.article)
             qty == NumberOrZero(row.qty)
             materialId == IdByArticle(article)
         IN IF article = "" \/ materialId = <<>>
            THEN parseTechCardExcelAnyQty(Tail(rows), used)
            ELSE LET id == FreshLineId(used)
                 IN <<[materialId |-> materialId[1], quantity |-> qty, _techCardId |-> id]>>
                      \o parseTechCardExcelAnyQty(Tail(rows), used \cup {id})

\* parseTechCardExcel over the rows below the header: a row without an
\* article, with a quantity that is not positive, or with an unknown
\* article is skipped; every other row becomes a line of its own
RECURSIVE parseTechCardExcel(_, _)
parseTechCardExcel(rows, used) ==
    IF rows = <<>> THEN <<>>
    ELSE LET row == Head(rows)
             article == LowerTc(row.article)
             qty == NumberOrZero(row.qty)
             materialId == IdByArticle(article)
         IN IF article = "" \/ qty = 0 \/ qty <= 0 \/ materialId = <<>>
            THEN parseTechCardExcel(Tail(rows), used)
            ELSE LET id == FreshLineId(used)
                 IN <<[materialId |-> materialId[1], quantity |-> qty, _techCardId |-> id]>>
                      \o parseTechCardExcel(Tail(rows), used \cup {id})

\* the order addPosition hands to onChange
addPosition(card, selected, qty) ==
    IF \E i \in 1..Len(card) : card[i].materialId = selected
    THEN [i \in 1..Len(card) |->
             IF card[i].materialId = selected
             THEN [card[i] EXCEPT !.quantity = @ + qty]
             ELSE card[i]]
    ELSE <<[materialId |-> selected, quantity |-> qty,
            _techCardId |-> FreshLineId(LineIds(card) \cup LineIds(aiResolved))]>>
           \o card

\* the text of the quantity field, as commitQty reads it: '' is 0, text
\* that is not a number is NaN
ParseQty(str) ==
    IF str = "" THEN <<0>>
    ELSE IF str = "abc" THEN <<>>
    ELSE IF str = "-1" THEN <<-1>>
    ELSE <<2>>

QtyTexts == {"", "abc", "-1", "2"}

\* Map.prototype.set on a list of [key, val] kept in insertion order
MapSet(map, key, val) ==
    IF \E i \in 1..Len(map) : map[i].key = key
    THEN [i \in 1..Len(map) |-> IF map[i].key = key THEN [key |-> key, val |-> val] ELSE map[i]]
    ELSE Append(map, [key |-> key, val |-> val])

MapGet(map, key) ==
    IF \E i \in 1..Len(map) : map[i].key = key
    THEN <<(CHOOSE e \in Range(map) : e.key = key).val>>
    ELSE <<>>

\* for (const it of base) map.set(it.materialId, it)
RECURSIVE MapOfBase(_, _)
MapOfBase(map, base) ==
    IF base = <<>> THEN map
    ELSE MapOfBase(MapSet(map, Head(base).materialId, Head(base)), Tail(base))

\* the second loop of applyResolvedToForm: a known material sums the quantities
RECURSIVE MergeResolved(_, _)
MergeResolved(map, resolved) ==
    IF resolved = <<>> THEN map
    ELSE LET it == Head(resolved)
             exist == MapGet(map, it.materialId)
         IN IF exist # <<>>
            THEN MergeResolved(
                     MapSet(map, it.materialId,
                            [exist[1] EXCEPT !.quantity = @ + it.quantity]),
                     Tail(resolved))
            ELSE MergeResolved(MapSet(map, it.materialId, it), Tail(resolved))

\* applyResolvedToForm: Array.from(map.values())
applyResolvedToForm(base, resolved) ==
    LET map == MergeResolved(MapOfBase(<<>>, base), resolved)
    IN [i \in 1..Len(map) |-> map[i].val]

\* the catalogue material an AI position resolves to: by article, then by
\* exact name, then by a name that contains the given one
MatchAiItem(it) ==
    LET articleKey == LowerTc(it.article)
        nameKey == LowerTc(it.name)
        byArticle == IF articleKey # "" THEN IdByArticle(articleKey) ELSE <<>>
        exact == {i \in 1..Len(Catalog) : LowerTc(Catalog[i].name) = nameKey}
        partial == {i \in 1..Len(Catalog) : Includes(LowerTc(Catalog[i].name), nameKey)}
    IN IF byArticle # <<>> THEN byArticle
       ELSE IF nameKey # "" /\ exact # {}
       THEN <<Catalog[CHOOSE i \in exact : \A j \in exact : j <= i].id>>
       ELSE IF nameKey # "" /\ partial # {}
       THEN <<Catalog[CHOOSE i \in partial : \A j \in partial : i <= j].id>>
       ELSE <<>>

\* resolveAiItemsToTechCard, the resolved half
RECURSIVE resolveAiItemsToTechCard(_, _)
resolveAiItemsToTechCard(aiItems, used) ==
    IF aiItems = <<>> THEN <<>>
    ELSE LET it == Head(aiItems)
             matched == MatchAiItem(it)
         IN IF matched = <<>>
            THEN resolveAiItemsToTechCard(Tail(aiItems), used)
            ELSE LET id == FreshLineId(used)
                 IN <<[materialId |-> matched[1], quantity |-> NumberOrZero(it.quantity),
                       _techCardId |-> id]>>
                      \o resolveAiItemsToTechCard(Tail(aiItems), used \cup {id})

(* Inputs of the tech-card specification *)

ExcelRows ==
    {[article |-> "X1", qty |-> <<1>>],
     [article |-> "y1", qty |-> <<1>>],
     [article |-> "zz", qty |-> <<0>>],
     [article |-> "X1", qty |-> <<0 - 1>>],
     [article |-> "y1", qty |-> <<>>],
     [article |-> "", qty |-> <<1>>]}

\* sheets of one or two rows below the header
ExcelSheets == {<<r>> : r \in ExcelRows} \cup {<<r1, r2>> : r1 \in ExcelRows, r2 \in ExcelRows}

AiItems ==
    {[article |-> "X1", name |-> "", quantity |-> <<1>>],
     [article |-> "", name |-> "edge", quantity |-> <<2>>],
     [article |-> "zz", name |-> "ed", quantity |-> <<>>],
     [article |-> "", name |-> "none", quantity |-> <<1>>]}

\* answers of one position, or of a position followed by the first one again
AiAnswers ==
    {<<a>> : a \in AiItems}
        \cup {<<a, [article |-> "X1", name |-> "", quantity |-> <<1>>]>> : a \in AiItems}

\* the ids a line of the card can carry
LineIdSet == 1..(MaxCard + 2)

TcIdle ==
    /\ value = <<>>
    /\ aiResolved = <<>>

----------------------------------------------------------------------------
(* AI service: gateway call with timeout, local fallback *)

\* FallbackUtils.low on the names and articles of the model
low(str) ==
    IF str = "LDSP-18-W" THEN "ldsp-18-w"
    ELSE IF str = "EDGE-2-PVC" THEN "edge-2-pvc"
    ELSE IF str = "HINGE-CLIP" THEN "hinge-clip"
    ELSE str

\* String.prototype.includes on lower-cased names: every string contains ''
lowIncludes(name, part) == part = "" \/ part = name \/ (name = "edge-long" /\ part = "edge")

\* FallbackUtils.hasAny: the text is held as the set of keywords it contains
hasAny(text, keys) == text \cap keys # {}

\* Array.prototype.find as the first index that satisfies the test, 0 if none
FirstIndex(list, Test(_)) ==
    IF \E i \in 1..Len(list) : Test(list[i])
    THEN CHOOSE i \in 1..Len(list) : Test(list[i]) /\ \A j \in 1..(i - 1) : ~Test(list[j])
    ELSE 0

\* FallbackUtils.findInCatalog: by article, then by name, then by a name
\* that contains the given one; an absent name or article is ''
findInCatalog(catalog, name, article) ==
    LET byArt == FirstIndex(catalog, LAMBDA m : low(m.article) = low(article))
        byName == FirstIndex(catalog, LAMBDA m : low(m.name) = low(name))
        byIncludes == FirstIndex(catalog, LAMBDA m : lowIncludes(low(m.name), low(name)))
    IN IF byArt # 0 THEN <<catalog[byArt]>>
       ELSE IF byName # 0 THEN <<catalog[byName]>>
       ELSE IF byIncludes # 0 THEN <<catalog[byIncludes]>>
       ELSE <<>>

\* found?.field || fallback
FieldOr(found, field, fallback) ==
    IF found = <<>> THEN fallback ELSE OrElse(found[1][field], fallback)

\* FallbackUtils.collectionDescription: the text as the sequence of its
\* non-empty parts
collectionDescription(name, group, productNames) ==
    LET n == OrElse(name, "new-collection")
        g == IF group # "" THEN <<group>> ELSE <<>>
        lineup == IF Len(productNames) > 0
                  THEN <<"lineup">> \o SubSeq(productNames, 1, IF Len(productNames) < 4
                                                               THEN Len(productNames) ELSE 4)
                         \o (IF Len(productNames) > 4 THEN <<"etc">> ELSE <<>>)
                  ELSE <<>>
    IN <<n>> \o g \o <<"lead">> \o lineup \o <<"pitch">>

\* techCardSuggest that lists only what it finds in the catalogue
techCardSuggestFoundOnly(text, materialsCatalog) ==
    LET edge == findInCatalog(materialsCatalog, "edge", "EDGE-2-PVC")
        ldsp == findInCatalog(materialsCatalog, "ldsp", "LDSP-18-W")
        Line(found, qty) ==
            IF found = <<>> THEN <<>>
            ELSE <<[name |-> found[1].name, article |-> found[1].article,
                    quantity |-> qty, unit |-> found[1].unit]>>
    IN Line(ldsp, 180) \o Line(edge, 600)

\* FallbackUtils.techCardSuggest, quantities in hundredths
techCardSuggest(text, materialsCatalog) ==
    LET isTumba == hasAny(text, {"tumb"})
        isPenal == hasAny(text, {"penal"})
        isMirror == hasAny(text, {"mirror"})
        is600 == hasAny(text, {"600"})
        is800 == hasAny(text, {"800"})
        is1000 == hasAny(text, {"1000"})
        ldspBase == IF is600 THEN 150 ELSE IF is800 THEN 220 ELSE IF is1000 THEN 280 ELSE 180
        edgeBase == IF is600 THEN 400 ELSE IF is800 THEN 700 ELSE IF is1000 THEN 900 ELSE 600
        hingeBase == IF is600 THEN 200 ELSE IF is800 THEN 200 ELSE IF is1000 THEN 400 ELSE 200
        ldspQty == IF isPenal THEN ldspBase + 80 ELSE ldspBase
        edgeQty == IF isPenal THEN edgeBase + 200 ELSE edgeBase
        hingeQty == IF isPenal THEN 400 ELSE hingeBase
        glass == findInCatalog(materialsCatalog, "mirror-glass", "")
        edge == findInCatalog(materialsCatalog, "edge", "EDGE-2-PVC")
        ldsp == findInCatalog(materialsCatalog, "ldsp", "LDSP-18-W")
        hinge == findInCatalog(materialsCatalog, "hinge", "HINGE-CLIP")
        handle == findInCatalog(materialsCatalog, "handle", "")
    IN IF isMirror
       THEN <<[name |-> FieldOr(glass, "name", "mirror-glass-default"),
               article |-> FieldOr(glass, "article", ""),
               quantity |-> IF is600 THEN 35 ELSE IF is800 THEN 50 ELSE 60,
               unit |-> FieldOr(glass, "unit", "m2")],
              [name |-> FieldOr(edge, "name", "edge"),
               article |-> FieldOr(edge, "article", "EDGE-2-PVC"),
               quantity |-> 200,
               unit |-> FieldOr(edge, "unit", "m")]>>
       ELSE <<[name |-> FieldOr(ldsp, "name", "ldsp"),
               article |-> FieldOr(ldsp, "article", "LDSP-18-W"),
               quantity |-> ldspQty,
               unit |-> FieldOr(ldsp, "unit", "m2")],
              [name |-> FieldOr(edge, "name", "edge"),
               article |-> FieldOr(edge, "article", "EDGE-2-PVC"),
               quantity |-> edgeQty,
               unit |-> FieldOr(edge, "unit", "m")]>>
            \o (IF isTumba \/ isPenal \/ hasAny(text, {"door", "hinge"})
                THEN <<[name |-> FieldOr(hinge, "name", "hinge"),
                        article |-> FieldOr(hinge, "article", "HINGE-CLIP"),
                        quantity |-> hingeQty,
                        unit |-> FieldOr(hinge, "unit", "pcs")]>>
                ELSE <<>>)
            \o (IF hasAny(text, {"handle"})
                THEN <<[name |-> FieldOr(handle, "name", "handle"),
                        article |-> FieldOr(handle, "article", ""),
                        quantity |-> 200,
                        unit |-> FieldOr(handle, "unit", "pcs")]>>
                ELSE <<>>)

\* rec.field, or <<>> when the object has no such property
Prop(rec, field) == IF field \in DOMAIN rec THEN <<rec[field]>> ELSE <<>>

\* Deadline without the five-second minimum
DeadlineEitherWay(timeoutMs) == IF timeoutMs = <<>> THEN 20 ELSE timeoutMs[1]

\* Math.max(5_000, opts?.timeoutMs ?? 20_000), in seconds
Deadline(timeoutMs) == Max(5, IF timeoutMs = <<>> THEN 20 ELSE timeoutMs[1])

\* jsonResponse of the gateway
jsonResponse(data, status) == [status |-> status, body |-> data]

\* the 200 answer of onRequestPost for what Anthropic returned: the text of
\* collection_description, the cleaned items of techcard_suggest
GatewayAnswer(task, answer) ==
    IF task = "collection_description"
    THEN jsonResponse([ok |-> TRUE, data |-> [description |-> answer.text]], 200)
    ELSE jsonResponse([ok |-> TRUE,
                       data |-> [items |-> SelectSeq(answer.items,
                                                     LAMBDA x : x.name # "" /\ x.quantity > 0)]],
                      200)

\* the catch block of onRequestPost
GatewayError(msg) == jsonResponse([ok |-> FALSE, error |-> msg], 500)

\* the answer of onRequestPost without ANTHROPIC_API_KEY
GatewayNoKey == jsonResponse([ok |-> FALSE, error |-> "no-key"], 501)

\* AiService.post: the AiResponse for what fetch gave
post(r) ==
    IF r.kind = "rejected" THEN [ok |-> FALSE, error |-> "network"]
    ELSE IF r.status < 200 \/ r.status > 299 THEN [ok |-> FALSE, error |-> "http"]
    ELSE IF r.kind = "html" THEN [ok |-> FALSE, error |-> "network"]
    ELSE IF Prop(r.body, "error") \notin {<<>>, <<"">>} THEN [ok |-> FALSE, error |-> r.body.error]
    ELSE [ok |-> TRUE, data |-> r.body]

\* generateCollectionDescription once post has returned
generateCollectionDescription(remote, input) ==
    LET desc == IF remote.ok /\ Prop(remote.data, "description") # <<>>
                THEN remote.data.description ELSE <<>>
    IN IF remote.ok /\ desc # <<>> THEN desc
       ELSE collectionDescription(input.name, input.group, input.productNames)

\* suggestTechCard once post has returned
suggestTechCard(remote, input) ==
    LET its == IF remote.ok /\ Prop(remote.data, "items") # <<>>
               THEN remote.data.items ELSE <<>>
        cleaned == SelectSeq(its, LAMBDA x : x.quantity > 0)
    IN IF remote.ok /\ cleaned # <<>> THEN cleaned
       ELSE techCardSuggest(input.text, input.catalog)

(* Inputs of the AI specification *)

AiCatalogs ==
    {<<>>,
     <<[name |-> "ldsp", article |-> "LDSP-18-W", unit |-> "m2"],
       [name |-> "edge-long", article |-> "", unit |-> ""]>>,
     <<[name |-> "glue", article |-> "", unit |-> "kg"],
       [name |-> "hinge", article |-> "hinge-clip", unit |-> "pcs"]>>}

\* product name and brief, as the keywords they contain
AiTexts ==
    {{}, {"tumb", "600"}, {"penal", "1000"}, {"mirror", "800"}, {"mirror"}, {"handle", "door"}}

AiInputs ==
    {[task |-> "collection_description", name |-> n, group |-> g, productNames |-> pn,
      text |-> {}, catalog |-> <<>>] :
        n \in {"", "N"}, g \in {"", "G"},
        pn \in {<<>>, <<"p1">>, <<"p1", "p2", "p3", "p4", "p5">>}}
    \cup
    {[task |-> "techcard_suggest", name |-> "", group |-> "", productNames |-> <<>>,
      text |-> t, catalog |-> c] : t \in AiTexts, c \in AiCatalogs}

\* what Anthropic can answer: a text or a list of items, possibly empty
ClaudeAnswers ==
    {[text |-> <<"claude-text">>, items |-> <<[name |-> "ldsp", quantity |-> 100]>>],
     [text |-> <<>>, items |-> <<[name |-> "", quantity |-> 100], [name |-> "x", quantity |-> 0]>>]}

\* opts.timeoutMs of callClaude, in seconds; onRequestPost passes none
TimeoutChoices == {<<>>, <<2>>, <<8>>}

AiIdle ==
    /\ aiReq = <<>>
    /\ gw = "idle"
    /\ clock = 0
    /\ resp = <<>>
    /\ aiResult = <<>>

----------------------------------------------------------------------------
(* PDF generation: engine loading, font, logo and thumbnails *)

\* ensureJsPdf: [ok, win, loadingPromise] after the call
ensureJsPdf(w, promise, e) ==
    IF w.jsPDF /\ w.autoTable
    THEN [ok |-> TRUE, win |-> w, loadingPromise |-> promise]
    ELSE IF promise = "none"
    THEN IF ~e.cdnJsPdf
         THEN [ok |-> FALSE, win |-> w, loadingPromise |-> "rejected"]
         ELSE IF ~e.cdnAutoTable
         THEN [ok |-> FALSE, win |-> [w EXCEPT !.jsPDF = TRUE], loadingPromise |-> "rejected"]
         ELSE [ok |-> TRUE, win |-> [jsPDF |-> TRUE, autoTable |-> e.attaches],
               loadingPromise |-> "resolved"]
    ELSE [ok |-> promise = "resolved", win |-> w, loadingPromise |-> promise]

\* imageUrlToDataUrl rejecting instead of returning null
imageUrlToDataUrlRejecting(fetchOk) ==
    IF fetchOk THEN [threw |-> FALSE, img |-> <<"data">>] ELSE [threw |-> TRUE, img |-> <<>>]

\* imageUrlToDataUrl / fetchImageToDataUrl: the data URL, or null when the
\* fetch fails or answers with an error status
imageUrlToDataUrl(fetchOk) ==
    IF fetchOk THEN [threw |-> FALSE, img |-> <<"data">>] ELSE [threw |-> FALSE, img |-> <<>>]

\* the rows of the document, each with the thumbnail drawn or not
RowsDrawn(rows, withImages, cache) ==
    [i \in 1..Len(rows) |->
        [id |-> rows[i].id,
         image |-> withImages /\ rows[i].imageUrl # "" /\ rows[i].imageUrl \in cache]]

NothingSaved(by, msg, warning) ==
    [by |-> by, saved |-> <<>>, error |-> <<msg>>, warning |-> warning]

\* handleGeneratePdf saving the pages drawn so far when autoTable is missing
handleGeneratePdfSavingCover(e, ensured) ==
    LET fontOK == e.fontOk
        warning == IF fontOK THEN <<>> ELSE <<"font">>
        logo == IF e.logoUrl THEN imageUrlToDataUrl(e.logoOk).img ELSE <<>>
    IN IF ~ensured.ok THEN NothingSaved("handleGeneratePdf", "load", <<>>)
       ELSE IF ~ensured.win.jsPDF THEN NothingSaved("handleGeneratePdf", "jsPDF", <<>>)
       ELSE [by |-> "handleGeneratePdf",
             saved |-> <<[font |-> IF fontOK THEN "custom" ELSE "helvetica",
                          cover |-> e.includeCover,
                          coverLogo |-> e.includeCover /\ logo # <<>>,
                          footerLogo |-> logo # <<>>,
                          rows |-> IF ensured.win.autoTable
                                   THEN RowsDrawn(e.rows, e.imageColumn,
                                                  {u \in e.imageOk : imageUrlToDataUrl(TRUE).img # <<>>})
                                   ELSE <<>>]>>,
             error |-> <<>>,
             warning |-> warning]

\* handleGeneratePdf of the price-list page, as far as failures go
handleGeneratePdfOutcome(e, ensured) ==
    LET fontOK == e.fontOk
        warning == IF fontOK THEN <<>> ELSE <<"font">>
        logo == IF e.logoUrl THEN imageUrlToDataUrl(e.logoOk).img ELSE <<>>
        imageCache == IF e.imageColumn
                      THEN {u \in {e.rows[i].imageUrl : i \in 1..Len(e.rows)} \ {""} :
                               imageUrlToDataUrl(u \in e.imageOk).img # <<>>}
                      ELSE {}
    IN IF ~ensured.ok THEN NothingSaved("handleGeneratePdf", "load", <<>>)
       ELSE IF ~ensured.win.jsPDF THEN NothingSaved("handleGeneratePdf", "jsPDF", <<>>)
       ELSE IF ~ensured.win.autoTable THEN NothingSaved("handleGeneratePdf", "autoTable", warning)
       ELSE [by |-> "handleGeneratePdf",
             saved |-> <<[font |-> IF fontOK THEN "custom" ELSE "helvetica",
                          cover |-> e.includeCover,
                          coverLogo |-> e.includeCover /\ logo # <<>>,
                          footerLogo |-> logo # <<>>,
                          rows |-> RowsDrawn(e.rows, e.imageColumn, imageCache)]>>,
             error |-> <<>>,
             warning |-> warning]

\* WasserPDFGenerator.generateAndSave: generateDoc, then doc.save
generateAndSave(e, ensured) ==
    LET fetched == IF e.logoUrl THEN imageUrlToDataUrl(e.logoOk)
                   ELSE [threw |-> FALSE, img |-> <<>>]
    IN IF ~ensured.ok THEN NothingSaved("generateAndSave", "load", <<>>)
       ELSE IF ~ensured.win.jsPDF THEN NothingSaved("generateAndSave", "jsPDF", <<>>)
       ELSE IF fetched.threw THEN NothingSaved("generateAndSave", "image", <<>>)
       ELSE IF ~ensured.win.autoTable THEN NothingSaved("generateAndSave", "autoTable", <<>>)
       ELSE [by |-> "generateAndSave",
             saved |-> <<[font |-> IF e.fontOk THEN "custom" ELSE "helvetica",
                          cover |-> e.includeCover,
                          coverLogo |-> e.includeCover /\ fetched.img # <<>>,
                          footerLogo |-> fetched.img # <<>>,
                          rows |-> RowsDrawn(e.rows, FALSE, {})]>>,
             error |-> <<>>,
             warning |-> <<>>]

\* generatePriceListPDF of useSystemData: jsPDF and autoTable are bundled,
\* registerCyrillicFont throws when the font cannot be fetched
generatePriceListPDF(e) ==
    LET logo == IF e.includeCover /\ e.logoUrl THEN imageUrlToDataUrl(e.logoOk).img ELSE <<>>
    IN IF ~e.fontOk THEN NothingSaved("generatePriceListPDF", "font", <<>>)
       ELSE [by |-> "generatePriceListPDF",
             saved |-> <<[font |-> "custom",
                          cover |-> e.includeCover,
                          coverLogo |-> logo # <<>>,
                          footerLogo |-> FALSE,
                          rows |-> RowsDrawn(e.rows, FALSE, {})]>>,
             error |-> <<>>,
             warning |-> <<>>]

(* Inputs of the generation specification *)

GenRows ==
    <<[id |-> 1, imageUrl |-> "u1"], [id |-> 2, imageUrl |-> ""], [id |-> 3, imageUrl |-> "u2"]>>

GenEnvs ==
    [cdnJsPdf : BOOLEAN, cdnAutoTable : BOOLEAN, attaches : BOOLEAN,
     fontOk : BOOLEAN,
     logoUrl : BOOLEAN, logoOk : BOOLEAN,
     includeCover : BOOLEAN, imageColumn : BOOLEAN,
     rows : {GenRows}, imageOk : {{}, {"u1"}, {"u1", "u2"}}]

NothingLoaded == [jsPDF |-> FALSE, autoTable |-> FALSE]

GenIdle ==
    /\ genEnv = <<>>
    /\ win = NothingLoaded
    /\ loadingPromise = "none"
    /\ genOut = <<>>

----------------------------------------------------------------------------
(* localStorage shared by two tabs: audit log, products, materials *)

AuditKey == "wasser_change_log"
ProductsKey == "wasser_products_data"
MaterialsKey == "wasser_materials"
StoreKeys == {AuditKey, ProductsKey, MaterialsKey}

Tabs == {"t1", "t2"}

\* StorageService.read / utils.read / readArrayFromLS: the stored list, or
\* the fallback when the key is absent
utilsRead(store, key, fallback) == IF store[key] = <<>> THEN fallback ELSE store[key][1]

\* a write that keeps what is stored and adds what the writer brings
utilsWriteMerging(store, key, val) ==
    [store EXCEPT ![key] =
        <<val \o SelectSeq(utilsRead(store, key, <<>>), LAMBDA x : x \notin Range(val))>>]

\* StorageService.write / utils.write / writeArrayToLS: setItem is taken to
\* succeed; the stored value is replaced as a whole
utilsWrite(store, key, val) == [store EXCEPT ![key] = <<val>>]

\* pushAudit putting the new record after the older ones
pushAuditAtTail(list, record) == Append(list, record)

\* [record, ...list]
pushAudit(list, record) == <<record>> \o list

\* the record of pushAudit / logEvent: id, version and the caller's fields
AuditRecord(id, action, entity) ==
    [id |-> id, version |-> "v1", action |-> action, entity |-> entity]

\* seedProducts(): the products of a browser that has none stored
seedProducts == <<0>>

BlankTab ==
    [page |-> "none", products |-> <<>>, items |-> <<>>,
     pendingEffect |-> FALSE, pendingLog |-> <<>>]

TabIdle ==
    /\ localStore = [k \in StoreKeys |-> <<>>]
    /\ tabs = [t \in Tabs |-> BlankTab]
    /\ nextId = 0
    /\ lastLog = <<>>
    /\ lastWrite = <<>>
    /\ actors = {}

----------------------------------------------------------------------------
(* Synchronisation of the materials with the remote store *)

DefaultSupabaseConfig == [enabled |-> FALSE, url |-> "", anonKey |-> ""]

\* getSupabaseConfig taking the stored flag for granted
getSupabaseConfigIgnoringFlag(stored) ==
    IF stored = <<>> THEN DefaultSupabaseConfig ELSE [stored[1] EXCEPT !.enabled = TRUE]

\* getSupabaseConfig: the stored configuration, or the disabled default
getSupabaseConfig(stored) ==
    IF stored = <<>> THEN DefaultSupabaseConfig ELSE stored[1]

\* isSupabaseEnabled
isSupabaseEnabled(stored) ==
    LET cfg == getSupabaseConfig(stored)
    IN cfg.enabled /\ cfg.url # "" /\ cfg.anonKey # ""

\* getSupabase / client(): <<>> stands for null
getSupabase(stored) ==
    LET cfg == getSupabaseConfig(stored)
    IN IF ~cfg.enabled \/ cfg.url = "" \/ cfg.anonKey = "" THEN <<>> ELSE <<cfg.url>>

\* rowToLocal
rowToLocal(r) == [id |-> r.id, version |-> IF r.version = 0 THEN 1 ELSE r.version]

\* localToRow of { ...item, version: (item.version || 1) + 1 }
localToRow(m) == [id |-> m.id, version |-> (IF m.version = 0 THEN 1 ELSE m.version) + 1]

\* upsert(rows, { onConflict: 'id' }): the rows replace those of the same
\* id and are the latest updates
Upserted(remote, rows) ==
    rows \o SelectSeq(remote, LAMBDA r : \A i \in 1..Len(rows) : rows[i].id # r.id)

\* the outcome of a sync operation
SyncOutcome(calls, threw, local, remote) ==
    [calls |-> calls, threw |-> threw, local |-> local, remote |-> remote]

\* pullMaterialsToLocal patching the local list with the rows it received
pullMaterialsToLocalPatching(stored, local, remote, err) ==
    IF ~isSupabaseEnabled(stored) THEN SyncOutcome(0, FALSE, local, remote)
    ELSE IF getSupabase(stored) = <<>> THEN SyncOutcome(0, FALSE, local, remote)
    ELSE IF err THEN SyncOutcome(1, TRUE, local, remote)
    ELSE SyncOutcome(1, FALSE,
                     [i \in 1..Len(remote) |-> rowToLocal(remote[i])]
                         \o SelectSeq(local, LAMBDA m : \A i \in 1..Len(remote) : remote[i].id # m.id),
                     remote)

\* pullMaterialsToLocal
pullMaterialsToLocal(stored, local, remote, err) ==
    IF ~isSupabaseEnabled(stored) THEN SyncOutcome(0, FALSE, local, remote)
    ELSE IF getSupabase(stored) = <<>> THEN SyncOutcome(0, FALSE, local, remote)
    ELSE IF err THEN SyncOutcome(1, TRUE, local, remote)
    ELSE SyncOutcome(1, FALSE, [i \in 1..Len(remote) |-> rowToLocal(remote[i])], remote)

\* upsertMaterialsBatch; upsertMaterial is the batch of one item
upsertMaterialsBatch(stored, local, remote, batch, err) ==
    IF ~isSupabaseEnabled(stored) \/ Len(batch) = 0 THEN SyncOutcome(0, FALSE, local, remote)
    ELSE IF getSupabase(stored) = <<>> THEN SyncOutcome(0, FALSE, local, remote)
    ELSE IF err THEN SyncOutcome(1, TRUE, local, remote)
    ELSE SyncOutcome(1, FALSE, local,
                     Upserted(remote, [i \in 1..Len(batch) |-> localToRow(batch[i])]))

\* upsertMaterial
upsertMaterial(stored, local, remote, item, err) ==
    IF ~isSupabaseEnabled(stored) THEN SyncOutcome(0, FALSE, local, remote)
    ELSE IF getSupabase(stored) = <<>> THEN SyncOutcome(0, FALSE, local, remote)
    ELSE IF err THEN SyncOutcome(1, TRUE, local, remote)
    ELSE SyncOutcome(1, FALSE, local, Upserted(remote, <<localToRow(item)>>))

\* deleteMaterial
deleteMaterial(stored, local, remote, id, err) ==
    IF ~isSupabaseEnabled(stored) THEN SyncOutcome(0, FALSE, local, remote)
    ELSE IF getSupabase(stored) = <<>> THEN SyncOutcome(0, FALSE, local, remote)
    ELSE IF err THEN SyncOutcome(1, TRUE, local, remote)
    ELSE SyncOutcome(1, FALSE, local, SelectSeq(remote, LAMBDA r : r.id # id))

\* subscribeMaterialsChanges: whether a channel is opened
subscribeMaterialsChanges(stored) ==
    ~(~isSupabaseEnabled(stored) \/ getSupabase(stored) = <<>>)

(* Inputs of the sync specification *)

SupabaseConfigs == [enabled : BOOLEAN, url : {"", "https://x.supabase.co"}, anonKey : {"", "key"}]

SyncIds == {"m1", "m2"}

\* the material lists of the local store: none, one material, two materials
LocalLists ==
    {<<>>,
     <<[id |-> "m1", version |-> 1]>>,
     <<[id |-> "m2", version |-> 0], [id |-> "m1", version |-> 1]>>}

SyncIdle ==
    /\ supabaseCfg = <<>>
    /\ localMaterials = <<>>
    /\ remoteMaterials = <<>>
    /\ channel = FALSE
    /\ lastSync = <<>>

----------------------------------------------------------------------------
(* Reading JSON text from localStorage *)

JsonNull == [type |-> "null"]
JsonArray == [type |-> "array"]
JsonNumber == [type |-> "number"]
JsonObject == [type |-> "object"]

\* the texts an item of the store can hold: empty, not JSON, and the JSON
\* texts of null, a list, an object and a number
RawTexts == {"", "{oops", "null", "[]", "{}", "7"}

\* JSON.parse: <<>> stands for a SyntaxError
JsonParse(text) ==
    IF text = "null" THEN <<JsonNull>>
    ELSE IF text = "[]" THEN <<JsonArray>>
    ELSE IF text = "{}" THEN <<JsonObject>>
    ELSE IF text = "7" THEN <<JsonNumber>>
    ELSE <<>>

\* StorageService.read / utils.read: raw ? JSON.parse(raw) : fallback, with
\* the fallback in the catch
storageRead(store, key, fallback) ==
    LET raw == store[key]
    IN IF raw = <<>> \/ raw[1] = "" THEN [result |-> fallback, threw |-> FALSE]
       ELSE IF JsonParse(raw[1]) = <<>> THEN [result |-> fallback, threw |-> FALSE]
       ELSE [result |-> JsonParse(raw[1])[1], threw |-> FALSE]

\* the key getLS reads
PrefixWasser(key) ==
    IF key = "price_settings" THEN "wasser_price_settings"
    ELSE IF key = "products" THEN "wasser_products"
    ELSE key

\* getLS of the price-list page
getLS(store, key, fallback) == storageRead(store, PrefixWasser(key), fallback)

RawKeys == {"wasser_change_log", "wasser_products_data", "wasser_price_settings"}

ReadIdle ==
    /\ rawStore = [k \in RawKeys |-> <<>>]
    /\ lastRead = <<>>

----------------------------------------------------------------------------
(* CSV export and import of the materials, character by character *)

\* a text is a sequence of characters; these are the ones of the model
Quote == "\""
Comma == ","
Bom == "BOM"                          \* the character U+FEFF

\* c.replace(/"/g, '""')
RECURSIVE DoubleQuotes(_)
DoubleQuotes(text) ==
    IF text = <<>> THEN <<>>
    ELSE IF Head(text) = Quote THEN <<Quote, Quote>> \o DoubleQuotes(Tail(text))
    ELSE <<Head(text)>> \o DoubleQuotes(Tail(text))

\* r.map(...).join(',')
RECURSIVE JoinComma(_)
JoinComma(cells) ==
    IF cells = <<>> THEN <<>>
    ELSE IF Len(cells) = 1 THEN cells[1]
    ELSE cells[1] \o <<Comma>> \o JoinComma(Tail(cells))

\* String(m.price): the digits of a price are one character of the model
PriceText(price) == IF price = 0 THEN <<"0">> ELSE IF price = 10 THEN <<"10">> ELSE <<"20">>

\* Number(text) of a cell: <<n>>, or <<>> for NaN; the empty text is 0
NumberOfText(text) ==
    IF text = <<>> \/ text = <<"0">> THEN <<0>>
    ELSE IF text = <<"10">> THEN <<10>>
    ELSE IF text = <<"20">> THEN <<20>>
    ELSE <<>>

HeaderCells == <<<<"n", "a", "m", "e">>, <<"article">>, <<"unit">>, <<"price">>>>

\* exportMaterialsCsv: the lines of the file, the first one after the BOM
exportMaterialsCsv(list) ==
    LET rows == <<HeaderCells>> \o
                [i \in 1..Len(list) |->
                    <<list[i].name, list[i].article, list[i].unit, PriceText(list[i].price)>>]
        lines == [i \in 1..Len(rows) |->
                     JoinComma([j \in 1..4 |->
                                   <<Quote>> \o DoubleQuotes(rows[i][j]) \o <<Quote>>])]
    IN [lines EXCEPT ![1] = <<Bom>> \o @]

\* row.replace(/﻿/g, '')
StripBom(text) == SelectSeq(text, LAMBDA c : c # Bom)

\* String.prototype.split(',')
RECURSIVE SplitComma(_, _)
SplitComma(text, cell) ==
    IF text = <<>> THEN <<cell>>
    ELSE IF Head(text) = Comma THEN <<cell>> \o SplitComma(Tail(text), <<>>)
    ELSE SplitComma(Tail(text), Append(cell, Head(text)))

\* c.replace(/^"|"$/g, ''): a quote at the start and one at the end go
StripOuterQuotes(cell) ==
    LET noFirst == IF cell # <<>> /\ Head(cell) = Quote THEN Tail(cell) ELSE cell
    IN IF noFirst # <<>> /\ noFirst[Len(noFirst)] = Quote
       THEN SubSeq(noFirst, 1, Len(noFirst) - 1)
       ELSE noFirst

\* c.replace(/""/g, '"')
RECURSIVE HalveQuotes(_)
HalveQuotes(text) ==
    IF Len(text) >= 2 /\ text[1] = Quote /\ text[2] = Quote
    THEN <<Quote>> \o HalveQuotes(Tail(Tail(text)))
    ELSE IF text = <<>> THEN <<>>
    ELSE <<Head(text)>> \o HalveQuotes(Tail(text))

\* the cells of a line
CsvCols(row) ==
    LET cols == SplitComma(StripBom(row), <<>>)
    IN [j \in 1..Len(cols) |-> HalveQuotes(StripOuterQuotes(cols[j]))]

\* cols[0].toLowerCase().includes('name')
IncludesName(text) ==
    \E k \in 1..Len(text) : k + 3 <= Len(text) /\ SubSeq(text, k, k + 3) = <<"n", "a", "m", "e">>

\* parseCsvToMaterials over the text of the file: the first line is skipped
\* if it is a single cell that contains 'name'; a line without a name is
\* no material
RECURSIVE parseCsvText(_, _)
parseCsvText(lines, i) ==
    IF i > Len(lines) THEN <<>>
    ELSE LET cols == CsvCols(lines[i])
             cell(j) == IF j <= Len(cols) THEN cols[j] ELSE <<>>
         IN IF Len(cols) = 1 /\ i = 1 /\ IncludesName(cols[1])
            THEN parseCsvText(lines, i + 1)
            ELSE (IF cell(1) = <<>> THEN <<>>
                  ELSE <<[name |-> cell(1), article |-> cell(2), unit |-> cell(3),
                          price |-> IF 4 <= Len(cols) THEN NumberOfText(cols[4]) ELSE <<0>>]>>)
                 \o parseCsvText(lines, i + 1)

\* importCsv into an empty catalogue: every imported material is put in front
RECURSIVE UnshiftAll(_, _)
UnshiftAll(merged, imported) ==
    IF imported = <<>> THEN merged
    ELSE UnshiftAll(<<Head(imported)>> \o merged, Tail(imported))

(* Inputs of the CSV specification *)

CsvNames == {<<"A">>, <<"B", "C">>, <<"A", Comma, "B">>, <<"A", Quote>>}
CsvArticles == {<<"x1">>, <<>>}
CsvUnits == {<<"m2">>, <<"pcs">>}
CsvPrices == {0, 10}

CsvMaterials == [name : CsvNames, article : CsvArticles, unit : CsvUnits, price : CsvPrices]

CsvIdle ==
    /\ catalogue = <<>>
    /\ csvFile = <<>>
    /\ reimported = <<>>

----------------------------------------------------------------------------
(* Price-list page: themes and the accent colour *)

\* THEMES of the price-list page
THEMES ==
    [gradientModern |->
        [key |-> "gradientModern",
         colors |-> [primary |-> "#2563eb", text |-> "#111111", headerText |-> "#ffffff",
                     table |-> [headBg |-> "#2563eb", headText |-> "white",
                                rowStripe |-> "#f1f5f9", border |-> "#e5e7eb"]],
         header |-> [topBand |-> TRUE, bandHeight |-> 24, underline |-> FALSE],
         tableTheme |-> "striped"],
     minimalNordic |->
        [key |-> "minimalNordic",
         colors |-> [primary |-> "#0f172a", text |-> "#111111", headerText |-> "#111111",
                     table |-> [headBg |-> "#ffffff", headText |-> "dark",
                                rowStripe |-> "#fafafa", border |-> "#e5e7eb"]],
         header |-> [topBand |-> FALSE, bandHeight |-> 0, underline |-> TRUE],
         tableTheme |-> "plain"],
     executiveBlue |->
        [key |-> "executiveBlue",
         colors |-> [primary |-> "#1d4ed8", text |-> "#111111", headerText |-> "#ffffff",
                     table |-> [headBg |-> "#1d4ed8", headText |-> "white",
                                rowStripe |-> "#eef2ff", border |-> "#c7d2fe"]],
         header |-> [topBand |-> FALSE, bandHeight |-> 0, underline |-> TRUE],
         tableTheme |-> "grid"]]

\* THEMES of WasserPDFGenerator
WasserThemes ==
    [modern |->
        [key |-> "modern", brand |-> "#2563eb", text |-> "#111111", headerText |-> "#ffffff",
         table |-> [headBg |-> "#2563eb", headText |-> "white",
                    rowStripe |-> "#f1f5f9", border |-> "#e5e7eb"],
         header |-> [topBand |-> TRUE, bandHeight |-> 24, underline |-> FALSE],
         tableTheme |-> "striped",
         fontSizes |-> [brand |-> 12, sub |-> 9, base |-> 10, hGroup |-> 14],
         fontName |-> "SpaceGrotesk"],
     nordic |->
        [key |-> "nordic", brand |-> "#0f172a", text |-> "#111111", headerText |-> "#111111",
         table |-> [headBg |-> "#ffffff", headText |-> "dark",
                    rowStripe |-> "#fafafa", border |-> "#e5e7eb"],
         header |-> [topBand |-> FALSE, bandHeight |-> 0, underline |-> TRUE],
         tableTheme |-> "plain",
         fontSizes |-> [brand |-> 12, sub |-> 9, base |-> 10, hGroup |-> 14],
         fontName |-> "Inter"],
     executive |->
        [key |-> "executive", brand |-> "#1d4ed8", text |-> "#111111", headerText |-> "#ffffff",
         table |-> [headBg |-> "#1d4ed8", headText |-> "white",
                    rowStripe |-> "#eef2ff", border |-> "#c7d2fe"],
         header |-> [topBand |-> FALSE, bandHeight |-> 0, underline |-> TRUE],
         tableTheme |-> "grid",
         fontSizes |-> [brand |-> 12, sub |-> 9, base |-> 10, hGroup |-> 14],
         fontName |-> "Roboto"]]

\* getActiveTheme painting the table head in the accent colour as well
getActiveThemeTintingHead(styleKey, brandColor, overridePrimary) ==
    LET base == THEMES[styleKey]
        primary == OrElse(overridePrimary, OrElse(brandColor, base.colors.primary))
    IN [base EXCEPT !.colors.primary = primary,
                    !.colors.table.headBg =
                        IF base.key = "minimalNordic" THEN "#ffffff" ELSE primary]

\* getActiveTheme: overridePrimary || options.brandColor || base.colors.primary
getActiveTheme(styleKey, brandColor, overridePrimary) ==
    LET base == THEMES[styleKey]
        primary == OrElse(overridePrimary, OrElse(brandColor, base.colors.primary))
    IN [base EXCEPT !.colors.primary = primary,
                    !.colors.table.headBg =
                        IF base.key = "minimalNordic" THEN "#ffffff" ELSE base.colors.table.headBg]

\* String.prototype.trim on the colours of the model
TrimColor(c) == IF c = "  " THEN "" ELSE c

\* the theme of WasserPDFGenerator.generateDoc: <<>> stands for no brandColor
WasserTheme(template, brandColor) ==
    LET base == WasserThemes[template]
        overrideBrand == IF brandColor = <<>> THEN "" ELSE TrimColor(brandColor[1])
    IN IF overrideBrand # "" THEN [base EXCEPT !.brand = overrideBrand] ELSE base

(* Inputs of the page specification *)

StyleKeys == {"gradientModern", "minimalNordic", "executiveBlue"}
WasserTemplates == {"modern", "nordic", "executive"}
AccentColors == {"", "#2563eb", "#ff0000"}

\* rows of the page by type and collection
PageShapes ==
    {[productType |-> "A", collectionId |-> "c1"],
     [productType |-> "B", collectionId |-> ""],
     [productType |-> "", collectionId |-> "c2"]}

PageRowsSet ==
    {[i \in 1..Len(sh) |-> [id |-> i, productType |-> sh[i].productType,
                            collectionId |-> sh[i].collectionId]] :
        sh \in SeqUpTo(PageShapes, MaxRows)}

\* the patches the controls of the page pass to updateOption
OptionPatches ==
    {[groupBy |-> g] : g \in {"none", "productType", "collection"}}
        \cup {[styleKey |-> k] : k \in StyleKeys}
        \cup {[brandColor |-> c] : c \in AccentColors}

\* the options the page starts with
DefaultPageOptions ==
    [groupBy |-> "productType", styleKey |-> "gradientModern", brandColor |-> "#2563eb"]

PageIdle ==
    /\ pageRows = <<>>
    /\ pageOptions = DefaultPageOptions
    /\ groupsMemo = <<>>
    /\ legacyGroups = <<>>
    /\ lastTheme = <<>>

----------------------------------------------------------------------------
(* Overlapping realtime pulls *)

MaxPulls == 2        \* most realtime pulls started

\* the rows another client of the table writes
RemoteRows == [id : SyncIds, version : {1, 2}]

\* a pull whose select request is on its way
SentPull == [phase |-> "sent", data |-> <<>>, error |-> FALSE]

\* the configuration of a subscribed page
ConfiguredSupabase == [enabled |-> TRUE, url |-> "https://x.supabase.co", anonKey |-> "key"]

PullIdle ==
    /\ pulls = <<>>
    /\ notices = 0

----------------------------------------------------------------------------
(* Font registration in a jsPDF document *)

\* a new jsPDF document: no custom font in its VFS, helvetica active
NewDoc == [vfs |-> {}, active |-> "helvetica"]

\* doc.addFileToVFS and doc.addFont
addFont(doc, fontName) == [doc EXCEPT !.vfs = @ \cup {fontName}]

\* doc.setFont of jsPDF 2.5.1: a name the document does not know is
\* answered with a warning and the font times
setFont(doc, fontName) ==
    [doc EXCEPT !.active = IF fontName \in doc.vfs \cup {"helvetica", "times"}
                           THEN fontName ELSE "times"]

\* registerFont of WasserPDFGenerator: [ok, doc, loadedFonts]
registerFontWasser(doc, fontName, loaded, fetchOk) ==
    IF fontName \notin loaded
    THEN IF ~fetchOk
         THEN [ok |-> FALSE, doc |-> setFont(doc, "helvetica"), loadedFonts |-> loaded]
         ELSE [ok |-> TRUE, doc |-> setFont(addFont(doc, fontName), fontName),
               loadedFonts |-> loaded \cup {fontName}]
    ELSE [ok |-> TRUE, doc |-> setFont(doc, fontName), loadedFonts |-> loaded]

\* registerFont of the price-list page: the uploaded font first, then the
\* candidates of the network; [ok, doc, loadedFonts]
registerFontHome(doc, fontName, loaded, fontBinary, fetchOk) ==
    IF fontBinary \/ fetchOk
    THEN IF fontName \notin loaded
         THEN [ok |-> TRUE, doc |-> setFont(addFont(doc, fontName), fontName),
               loadedFonts |-> loaded \cup {fontName}]
         ELSE [ok |-> TRUE, doc |-> setFont(doc, fontName), loadedFonts |-> loaded]
    ELSE [ok |-> FALSE, doc |-> doc, loadedFonts |-> loaded]

FontNames == {"SpaceGrotesk", "Inter", "Roboto"}

FontIdle ==
    /\ loadedFontsHome = {}
    /\ loadedFontsWasser = {}
    /\ fontDoc = <<>>

----------------------------------------------------------------------------
(* The script loader over a changing network *)

\* the states of the network: each script reachable or not, the plugin
\* attaching itself to jsPDF or not
Networks == [cdnJsPdf : BOOLEAN, cdnAutoTable : BOOLEAN, attaches : BOOLEAN]

MaxCalls == 3        \* most calls of ensureJsPdf

Unreachable == [cdnJsPdf |-> FALSE, cdnAutoTable |-> FALSE, attaches |-> TRUE]

LoadIdle ==
    /\ cdn = Unreachable
    /\ ensureLog = <<>>

----------------------------------------------------------------------------
(* Price settings in localStorage: settings page, products page, price-list page *)

\* LS_KEYS.price of the settings page and of the products page
PriceDataKey == "wasser_price_settings_data"

\* the key getLS('price_settings', ...) of the price-list page reads
PriceListKey == "wasser_price_settings"

LsKeys == {PriceDataKey, PriceListKey}

\* seedPrice of the settings page and of the products page
seedPrice ==
    [productTypes |-> <<[id |-> "pt1", markup |-> 10, workCost |-> 1000],
                        [id |-> "pt2", markup |-> 15, workCost |-> 1500],
                        [id |-> "pt3", markup |-> 20, workCost |-> 2000]>>,
     finishTypes |-> <<[id |-> "ft1", markup |-> 50], [id |-> "ft2", markup |-> 30]>>]

\* demo.price_settings of the demo-data button of the price-list page
DemoPriceSettings ==
    [productTypes |-> <<[id |-> "pt1", markup |-> 30, workCost |-> 1500]>>,
     finishTypes |-> <<[id |-> "ft1", markup |-> 0]>>]

\* the fallback of getLS('price_settings', ...)
EmptyPriceSettings == [productTypes |-> <<>>, finishTypes |-> <<>>]

\* readLS / getLS: the parsed value, or the fallback when the key is absent
readLS(store, key, fallback) == IF store[key] = <<>> THEN fallback ELSE store[key][1]

\* writeLS
writeLS(store, key, val) == [store EXCEPT ![key] = <<val>>]

\* sanitizeNumber(n, min, max), max < 0 standing for no maximum
sanitizeNumber(n, min, max) ==
    IF n = <<>> THEN min
    ELSE IF max >= 0 /\ n[1] > max THEN max
    ELSE IF n[1] < min THEN min
    ELSE n[1]

\* prev.productTypes.map((t) => (t.id === id ? { ...t, ...patch } : t))
patchPriceType(st, id, markup, workCost) ==
    [st EXCEPT !.productTypes =
        [i \in 1..Len(st.productTypes) |->
            IF st.productTypes[i].id = id
            THEN [st.productTypes[i] EXCEPT !.markup = markup, !.workCost = workCost]
            ELSE st.productTypes[i]]]

\* prev.finishTypes.map((t) => (t.id === id ? { ...t, ...patch } : t))
patchFinishType(st, id, markup) ==
    [st EXCEPT !.finishTypes =
        [i \in 1..Len(st.finishTypes) |->
            IF st.finishTypes[i].id = id
            THEN [st.finishTypes[i] EXCEPT !.markup = markup]
            ELSE st.finishTypes[i]]]

\* the product both pages list, and the catalogue it is priced with
ListedProduct ==
    [tech_card |-> <<[materialId |-> "m1", quantity |-> <<2>>]>>,
     product_type_id |-> "pt1", finish_type_id |-> "ft1"]

ListedMaterials == <<[id |-> "m1", price |-> 425]>>

\* what the numeric fields of the settings page can hand to sanitizeNumber
TypedMarkups == {<<>>, <<0>>, <<30>>, <<501>>}
TypedWorkCosts == {<<0>>, <<1500>>}

NoPage == "none"

StIdle ==
    /\ ls = [k \in LsKeys |-> <<>>]
    /\ route = NoPage
    /\ pageSettings = <<>>
    /\ pagePrice = <<>>
    /\ shownPrice = <<>>
    /\ saved = <<>>

ExtIdle ==
    /\ StIdle
    /\ AiIdle
    /\ GenIdle
    /\ TabIdle
    /\ SyncIdle
    /\ ReadIdle
    /\ CsvIdle
    /\ PageIdle
    /\ PullIdle
    /\ FontIdle
    /\ LoadIdle

----------------------------------------------------------------------------
(* Inputs of the price specification *)

MatIds == {"m1", "m2"}
GoneId == "gone"                    \* an id that resolves to nothing
PriceVals == {0, 425}
MarkupVals == {0, 10, 500}
WorkCostVals == {1000}
FinishMarkupVals == {50}

TechCardItems ==
    [materialId : MatIds \cup {GoneId},
     quantity : {<<>>} \cup {<<q>> : q \in 0..MaxQty}]

Products ==
    [tech_card : SeqUpTo(TechCardItems, MaxLines),
     product_type_id : {"pt1", "pt2", GoneId},
     finish_type_id : {"ft1", GoneId}]

MaterialLists ==
    {<<[id |-> "m1", price |-> p1], [id |-> "m2", price |-> 425]>> : p1 \in PriceVals}

SettingsSet ==
    {[productTypes |-> <<[id |-> "pt1", markup |-> m, workCost |-> w],
                         [id |-> "pt2", markup |-> 15, workCost |-> 1500]>>,
      finishTypes |-> <<[id |-> "ft1", markup |-> f]>>] :
        m \in MarkupVals, w \in WorkCostVals, f \in FinishMarkupVals}

NoResult == [by |-> "none", price |-> ZeroPrice]

PriceIdle ==
    /\ product = [tech_card |-> <<>>, product_type_id |-> GoneId, finish_type_id |-> GoneId]
    /\ materials = <<>>
    /\ settings = [productTypes |-> <<>>, finishTypes |-> <<>>]
    /\ priceResult = NoResult

PriceInit ==
    /\ product \in Products
    /\ materials \in MaterialLists
    /\ settings \in SettingsSet
    /\ priceResult = NoResult
    /\ DocIdle
    /\ DndIdle
    /\ MatIdle
    /\ TcIdle
    /\ ExtIdle

PriceListCalc ==
    /\ priceResult' = [by |-> "calcPrice", price |-> calcPrice(product, materials, settings)]
    /\ UNCHANGED <<product, materials, settings, docVars, dndVars, matVars, tcVars, extVars>>

LegacyCalc ==
    /\ priceResult' = [by |-> "calculateProductPrice",
                       price |-> calculateProductPrice(product, materials, settings)]
    /\ UNCHANGED <<product, materials, settings, docVars, dndVars, matVars, tcVars, extVars>>

ProductsPageCalc ==
    /\ priceResult' = [by |-> "calcPriceProducts",
                       price |-> calcPriceProducts(product, materials, settings)]
    /\ UNCHANGED <<product, materials, settings, docVars, dndVars, matVars, tcVars, extVars>>

PriceNext == PriceListCalc \/ LegacyCalc \/ ProductsPageCalc

PriceSpec == PriceInit /\ [][PriceNext]_vars

----------------------------------------------------------------------------
(* The document specification *)

DocInit ==
    /\ computed \in ComputedRows
    /\ options \in OptionsSet
    /\ pdfDoc = <<>>
    /\ printDoc = <<>>
    /\ wasserDoc = <<>>
    /\ PriceIdle
    /\ DndIdle
    /\ MatIdle
    /\ TcIdle
    /\ ExtIdle

GeneratePdf ==
    /\ pdfDoc' = <<handleGeneratePdf(computed, options)>>
    /\ UNCHANGED <<computed, options, printDoc, wasserDoc, priceVars, dndVars, matVars, tcVars, extVars>>

RenderPrintPreview ==
    /\ printDoc' = <<PrintPreviewHtml(groups(computed, options.groupBy), buildColumns(options),
                                      options.showGroupTotals, options.showGrandTotal)>>
    /\ UNCHANGED <<computed, options, pdfDoc, wasserDoc, priceVars, dndVars, matVars, tcVars, extVars>>

GenerateWasser ==
    /\ wasserDoc' = <<generateDoc(groups(computed, options.groupBy), options)>>
    /\ UNCHANGED <<computed, options, pdfDoc, printDoc, priceVars, dndVars, matVars, tcVars, extVars>>

DocNext == GeneratePdf \/ RenderPrintPreview \/ GenerateWasser

DocSpec == DocInit /\ [][DocNext]_vars

----------------------------------------------------------------------------
(* The collection-editor specification *)

DndInit ==
    /\ productOrder \in StoredOrders
    /\ editor = ClosedEditor
    /\ movesOnly = TRUE
    /\ applied = <<>>
    /\ PriceIdle
    /\ DocIdle
    /\ MatIdle
    /\ TcIdle
    /\ ExtIdle

\* setEditorCollection(c): the editor mounts with order = product_order
OpenEditor ==
    /\ ~editor.open
    /\ editor' = [open |-> TRUE, order |-> productOrder, draggingId |-> NoDrag]
    /\ movesOnly' = TRUE
    /\ applied' = <<>>
    /\ UNCHANGED <<productOrder, priceVars, docVars, matVars, tcVars, extVars>>

\* onDragStart of a card of either column
DragStart(id) ==
    /\ editor.open
    /\ id \in Range(inCollection(editor.order)) \cup available(editor.order)
    /\ editor' = [editor EXCEPT !.draggingId = id]
    /\ UNCHANGED <<productOrder, movesOnly, applied, priceVars, docVars, matVars, tcVars, extVars>>

\* a drop on a card of the left column: the card's onDrop runs, then the
\* event bubbles to the column's onDrop; both handlers belong to the same
\* render, so both see the same draggingId and order, and the state kept is
\* that of the last setOrder call
DropOnItem(targetId) ==
    /\ editor.open
    /\ targetId \in Range(inCollection(editor.order))
    /\ LET fromItem == onDropOverItem(editor.order, editor.draggingId, targetId)
           afterItem == IF editor.draggingId = NoDrag \/ editor.draggingId = targetId
                        THEN editor.order ELSE fromItem
           afterList == IF editor.draggingId = NoDrag
                        THEN afterItem
                        ELSE onDropToListEnd(editor.order, editor.draggingId)
       IN editor' = [editor EXCEPT
                        !.order = afterList,
                        !.draggingId = NoDrag]
    /\ movesOnly' = (movesOnly /\ (editor.draggingId = NoDrag
                                     \/ editor.draggingId \in Range(editor.order)))
    /\ UNCHANGED <<productOrder, applied, priceVars, docVars, matVars, tcVars, extVars>>

\* a drop on the left column outside every card: only onDropToListEnd runs
DropOnList ==
    /\ editor.open
    /\ editor' = [editor EXCEPT
                     !.order = onDropToListEnd(editor.order, editor.draggingId),
                     !.draggingId = NoDrag]
    /\ movesOnly' = (movesOnly /\ (editor.draggingId = NoDrag
                                     \/ editor.draggingId \in Range(editor.order)))
    /\ UNCHANGED <<productOrder, applied, priceVars, docVars, matVars, tcVars, extVars>>

\* the card's remove button
RemoveFromCollection(id) ==
    /\ editor.open
    /\ id \in Range(inCollection(editor.order))
    /\ editor' = [editor EXCEPT !.order = Without(editor.order, id)]
    /\ movesOnly' = FALSE
    /\ UNCHANGED <<productOrder, applied, priceVars, docVars, matVars, tcVars, extVars>>

\* onApply(order): updateCollection(id, {product_order: nextOrder}), editor closed
Apply ==
    /\ editor.open
    /\ productOrder' = editor.order
    /\ applied' = <<[before |-> productOrder, after |-> editor.order,
                     shown |-> inCollection(editor.order), movesOnly |-> movesOnly]>>
    /\ editor' = ClosedEditor
    /\ UNCHANGED <<movesOnly, priceVars, docVars, matVars, tcVars, extVars>>

\* onClose: the editor unmounts, nothing is stored
CloseEditor ==
    /\ editor.open
    /\ editor' = ClosedEditor
    /\ UNCHANGED <<productOrder, movesOnly, applied, priceVars, docVars, matVars, tcVars, extVars>>

DndNext ==
    \/ OpenEditor
    \/ \E id \in ProductIds : DragStart(id)
    \/ \E id \in ProductIds : DropOnItem(id)
    \/ DropOnList
    \/ \E id \in ProductIds : RemoveFromCollection(id)
    \/ Apply
    \/ CloseEditor

DndSpec == DndInit /\ [][DndNext]_vars

----------------------------------------------------------------------------
(* The materials specification *)

MatInit ==
    /\ items = <<>>
    /\ lastImport = <<>>
    /\ PriceIdle
    /\ DocIdle
    /\ DndIdle
    /\ TcIdle
    /\ ExtIdle

\* AddMaterialForm.submit, then addMaterial: the new material goes in front
AddMaterial(name, article, unit, price) ==
    /\ name # ""
    /\ Len(items) < MaxMaterials
    /\ items' = <<[id |-> FreshId(items), name |-> name, article |-> article,
                   unit |-> OrElse(unit, DefaultUnit),
                   price |-> price]>> \o items
    /\ lastImport' = <<>>
    /\ UNCHANGED <<priceVars, docVars, dndVars, tcVars, extVars>>

\* removeMaterial, the confirm dialog accepted
RemoveMaterial(id) ==
    /\ \E i \in 1..Len(items) : items[i].id = id
    /\ items' = SelectSeq(items, LAMBDA x : x.id # id)
    /\ lastImport' = <<>>
    /\ UNCHANGED <<priceVars, docVars, dndVars, tcVars, extVars>>

\* importCsv of a file; a file without a valid line changes nothing
ImportCsv(file) ==
    LET imported == parseCsvToMaterials(file)
        merged == MergeImported(items, imported, items)
    IN /\ imported # <<>>
       /\ Len(merged) <= MaxMaterials
       /\ items' = merged
       /\ lastImport' = <<[uniqueBefore |-> \A i, j \in 1..Len(items) :
                                               ArticleKey(items[i]) = ArticleKey(items[j]) => i = j,
                            imported |-> imported]>>
       /\ UNCHANGED <<priceVars, docVars, dndVars, tcVars, extVars>>

MatNext ==
    \/ \E n \in FormNames, a \in FormArticles, u \in FormUnits, pr \in FormPrices :
          AddMaterial(n, a, u, pr)
    \/ \E id \in 1..MaxMaterials : RemoveMaterial(id)
    \/ \E file \in CsvFiles : ImportCsv(file)

MatSpec == MatInit /\ [][MatNext]_vars

----------------------------------------------------------------------------
(* The tech-card specification *)

TcInit ==
    /\ value = <<>>
    /\ aiResolved = <<>>
    /\ PriceIdle
    /\ DocIdle
    /\ DndIdle
    /\ MatIdle
    /\ ExtIdle

WithinCard(card) ==
    /\ Len(card) <= MaxCard
    /\ \A i \in 1..Len(card) : card[i].quantity <= MaxCardQty

\* the Add button: a material and a positive quantity are required
AddPosition(selected, qty) ==
    /\ selected # "" /\ qty # 0 /\ qty > 0
    /\ WithinCard(addPosition(value, selected, qty))
    /\ value' = addPosition(value, selected, qty)
    /\ UNCHANGED <<aiResolved, priceVars, docVars, dndVars, matVars, extVars>>

\* blur or Enter in the quantity field of the line with this id
CommitQty(id, str) ==
    /\ id \in LineIds(value)
    /\ LET q == ParseQty(str)
       IN IF q = <<>> \/ q[1] < 0
          THEN UNCHANGED value
          ELSE value' = [i \in 1..Len(value) |->
                            IF value[i]._techCardId = id
                            THEN [value[i] EXCEPT !.quantity = q[1]]
                            ELSE value[i]]
    /\ UNCHANGED <<aiResolved, priceVars, docVars, dndVars, matVars, extVars>>

\* the Delete button of a line
RemovePosition(id) ==
    /\ id \in LineIds(value)
    /\ value' = SelectSeq(value, LAMBDA it : it._techCardId # id)
    /\ UNCHANGED <<aiResolved, priceVars, docVars, dndVars, matVars, extVars>>

\* doImport: the parsed rows are appended to the card
DoImport(sheet) ==
    LET parsed == parseTechCardExcel(sheet, LineIds(value) \cup LineIds(aiResolved))
    IN /\ parsed # <<>>
       /\ WithinCard(value \o parsed)
       /\ value' = value \o parsed
       /\ UNCHANGED <<aiResolved, priceVars, docVars, dndVars, matVars, extVars>>

\* doSuggestTechCard: the answer of the AI service, matched to the catalogue
DoSuggestTechCard(answer) ==
    /\ aiResolved' = resolveAiItemsToTechCard(answer, LineIds(value))
    /\ UNCHANGED <<value, priceVars, docVars, dndVars, matVars, extVars>>

\* the Apply button of the AI panel
ApplyResolvedToForm ==
    /\ aiResolved # <<>>
    /\ WithinCard(applyResolvedToForm(value, aiResolved))
    /\ value' = applyResolvedToForm(value, aiResolved)
    /\ aiResolved' = <<>>
    /\ UNCHANGED <<priceVars, docVars, dndVars, matVars, extVars>>

TcNext ==
    \/ \E m \in {"", "m1", "m2"}, q \in (0 - 1)..2 : AddPosition(m, q)
    \/ \E id \in LineIdSet, str \in QtyTexts : CommitQty(id, str)
    \/ \E id \in LineIdSet : RemovePosition(id)
    \/ \E sheet \in ExcelSheets : DoImport(sheet)
    \/ \E answer \in AiAnswers : DoSuggestTechCard(answer)
    \/ ApplyResolvedToForm

TcSpec == TcInit /\ [][TcNext]_vars

----------------------------------------------------------------------------
(* The AI specification *)

CoreIdle ==
    /\ PriceIdle
    /\ DocIdle
    /\ DndIdle
    /\ MatIdle
    /\ TcIdle

notAiVars == <<csvVars, readVars, syncVars, coreVars, stVars, genVars, tabVars, pageVars, pullVars, fontVars, loadVars>>

AiInit ==
    /\ AiIdle
    /\ CoreIdle
    /\ StIdle
    /\ GenIdle
    /\ TabIdle
    /\ SyncIdle
    /\ ReadIdle
    /\ CsvIdle
    /\ PageIdle
    /\ PullIdle
    /\ FontIdle
    /\ LoadIdle

\* an AiService method is called and post starts its fetch
CallAi(input, timeoutMs) ==
    /\ aiReq = <<>>
    /\ aiReq' = <<[input |-> input, timeoutMs |-> timeoutMs]>>
    /\ gw' = "idle"
    /\ clock' = 0
    /\ resp' = <<>>
    /\ aiResult' = <<>>
    /\ UNCHANGED notAiVars

\* fetch rejects: the endpoint cannot be reached
FetchRejected ==
    /\ aiReq # <<>> /\ resp = <<>> /\ gw = "idle"
    /\ resp' = <<[kind |-> "rejected"]>>
    /\ UNCHANGED <<aiReq, gw, clock, aiResult, notAiVars>>

\* something in front of the gateway answers instead of it: an error page
\* with a 4xx status, or an HTML page with status 200
FetchNotGateway(status) ==
    /\ aiReq # <<>> /\ resp = <<>> /\ gw = "idle"
    /\ resp' = <<[kind |-> "html", status |-> status, body |-> [html |-> TRUE]]>>
    /\ UNCHANGED <<aiReq, gw, clock, aiResult, notAiVars>>

\* onRequestPost without ANTHROPIC_API_KEY
GatewayWithoutKey ==
    /\ aiReq # <<>> /\ resp = <<>> /\ gw = "idle"
    /\ resp' = <<[kind |-> "json"] @@ GatewayNoKey>>
    /\ UNCHANGED <<aiReq, gw, clock, aiResult, notAiVars>>

\* onRequestPost calls callClaude: the timer is armed, fetch to Anthropic starts
CallClaude ==
    /\ aiReq # <<>> /\ resp = <<>> /\ gw = "idle"
    /\ gw' = "waiting"
    /\ clock' = 0
    /\ UNCHANGED <<aiReq, resp, aiResult, notAiVars>>

\* a second passes while callClaude awaits Anthropic; the timer fires at the deadline
Tick ==
    /\ gw = "waiting"
    /\ clock < Deadline(aiReq[1].timeoutMs)
    /\ clock' = clock + 1
    /\ UNCHANGED <<aiReq, gw, resp, aiResult, notAiVars>>

\* Anthropic answers in time with a 2xx response
ClaudeAnswers200(answer) ==
    /\ gw = "waiting"
    /\ gw' = "answered"
    /\ resp' = <<[kind |-> "json"] @@ GatewayAnswer(aiReq[1].input.task, answer)>>
    /\ UNCHANGED <<aiReq, clock, aiResult, notAiVars>>

\* Anthropic answers with an error status, or the fetch to it rejects
ClaudeFails ==
    /\ gw = "waiting"
    /\ gw' = "answered"
    /\ resp' = <<[kind |-> "json"] @@ GatewayError("claude-http")>>
    /\ UNCHANGED <<aiReq, clock, aiResult, notAiVars>>

\* the timer fires: controller.abort() rejects the fetch, onRequestPost catches
AbortClaude ==
    /\ gw = "waiting"
    /\ clock = Deadline(aiReq[1].timeoutMs)
    /\ gw' = "aborted"
    /\ resp' = <<[kind |-> "json"] @@ GatewayError("aborted")>>
    /\ UNCHANGED <<aiReq, clock, aiResult, notAiVars>>

\* post returns and the AiService method returns its result
ReturnAi ==
    /\ resp # <<>> /\ aiResult = <<>>
    /\ LET remote == post(resp[1])
           input == aiReq[1].input
       IN aiResult' = <<[remote |-> remote,
                         threw |-> FALSE,
                         value |-> IF input.task = "collection_description"
                                   THEN generateCollectionDescription(remote, input)
                                   ELSE suggestTechCard(remote, input)]>>
    /\ UNCHANGED <<aiReq, gw, clock, resp, notAiVars>>

AiNext ==
    \/ \E input \in AiInputs, t \in TimeoutChoices : CallAi(input, t)
    \/ FetchRejected
    \/ \E status \in {200, 403} : FetchNotGateway(status)
    \/ GatewayWithoutKey
    \/ CallClaude
    \/ Tick
    \/ \E answer \in ClaudeAnswers : ClaudeAnswers200(answer)
    \/ ClaudeFails
    \/ AbortClaude
    \/ ReturnAi

AiSpec == AiInit /\ [][AiNext]_vars

----------------------------------------------------------------------------
(* The generation specification *)

notGenVars == <<csvVars, readVars, syncVars, coreVars, stVars, aiVars, tabVars, pageVars, pullVars, fontVars, loadVars>>

GenInit ==
    /\ genEnv \in {<<e>> : e \in GenEnvs}
    /\ win = NothingLoaded
    /\ loadingPromise = "none"
    /\ genOut = <<>>
    /\ CoreIdle
    /\ StIdle
    /\ AiIdle
    /\ TabIdle
    /\ SyncIdle
    /\ ReadIdle
    /\ CsvIdle
    /\ PageIdle
    /\ PullIdle
    /\ FontIdle
    /\ LoadIdle

\* the PDF button of the price-list page
RunHandleGeneratePdf ==
    LET ensured == ensureJsPdf(win, loadingPromise, genEnv[1])
    IN /\ win' = ensured.win
       /\ loadingPromise' = ensured.loadingPromise
       /\ genOut' = <<handleGeneratePdfOutcome(genEnv[1], ensured)>>
       /\ UNCHANGED <<genEnv, notGenVars>>

\* WasserPDFGenerator.generateAndSave
RunGenerateAndSave ==
    LET ensured == ensureJsPdf(win, loadingPromise, genEnv[1])
    IN /\ win' = ensured.win
       /\ loadingPromise' = ensured.loadingPromise
       /\ genOut' = <<generateAndSave(genEnv[1], ensured)>>
       /\ UNCHANGED <<genEnv, notGenVars>>

\* generatePriceListPDF of useSystemData
RunGeneratePriceListPDF ==
    /\ genOut' = <<generatePriceListPDF(genEnv[1])>>
    /\ UNCHANGED <<genEnv, win, loadingPromise, notGenVars>>

GenNext ==
    \/ RunHandleGeneratePdf
    \/ RunGenerateAndSave
    \/ RunGeneratePriceListPDF

GenSpec == GenInit /\ [][GenNext]_vars

----------------------------------------------------------------------------
(* The two-tab specification *)

notTabVars == <<coreVars, stVars, aiVars, genVars, syncVars, readVars, csvVars, pageVars, pullVars, fontVars, loadVars>>

TabInit ==
    /\ localStore = [k \in StoreKeys |-> <<>>]
    /\ tabs = [t \in Tabs |-> BlankTab]
    /\ nextId = 0
    /\ lastLog = <<>>
    /\ lastWrite = <<>>
    /\ actors = {}
    /\ CoreIdle
    /\ StIdle
    /\ AiIdle
    /\ GenIdle
    /\ SyncIdle
    /\ ReadIdle
    /\ CsvIdle
    /\ PageIdle
    /\ PullIdle
    /\ FontIdle
    /\ LoadIdle

\* a tab between two handlers: no log call of its own is half done
Quiet(t) == tabs[t].pendingLog = <<>>

\* the value a write leaves in the history
WriteOf(t, key, basis, val, store) ==
    <<[tab |-> t, key |-> key, basis |-> basis,
       before |-> utilsRead(localStore, key, <<>>),
       written |-> val,
       after |-> utilsRead(store, key, <<>>)]>>

\* CollectionsPage mounts: the products are read into the state; the
\* effect that saves them is scheduled
MountCollections(t) ==
    /\ Quiet(t) /\ ~tabs[t].pendingEffect
    /\ tabs[t].page # "collections"
    /\ tabs' = [tabs EXCEPT ![t] =
                   [BlankTab EXCEPT !.page = "collections",
                                    !.products = utilsRead(localStore, ProductsKey, seedProducts),
                                    !.pendingEffect = TRUE]]
    /\ actors' = actors \cup {t}
    /\ UNCHANGED <<localStore, nextId, lastLog, lastWrite, notTabVars>>

\* useEffect(() => utils.write(LS_KEYS.products, products), [products])
SaveProductsEffect(t) ==
    /\ Quiet(t) /\ tabs[t].pendingEffect
    /\ LET store == utilsWrite(localStore, ProductsKey, tabs[t].products)
       IN /\ localStore' = store
          /\ lastWrite' = WriteOf(t, ProductsKey, tabs[t].products, tabs[t].products, store)
    /\ tabs' = [tabs EXCEPT ![t].pendingEffect = FALSE]
    /\ actors' = actors \cup {t}
    /\ UNCHANGED <<nextId, lastLog, notTabVars>>

\* createProduct up to logEvent's read of the log: the product is put
\* first in the state, the effect is scheduled, the log is read
CreateProduct(t) ==
    /\ Quiet(t)
    /\ tabs[t].page = "collections"
    /\ nextId + 2 <= MaxIds
    /\ tabs' = [tabs EXCEPT ![t].products = <<nextId + 1>> \o @,
                            ![t].pendingEffect = TRUE,
                            ![t].pendingLog =
                                <<[list |-> utilsRead(localStore, AuditKey, <<>>),
                                   record |-> AuditRecord(nextId + 2, "create", "product")]>>]
    /\ nextId' = nextId + 2
    /\ actors' = actors \cup {t}
    /\ UNCHANGED <<localStore, lastLog, lastWrite, notTabVars>>

\* StorageService.pushAudit up to its read of the log
PushAuditRead(t) ==
    /\ Quiet(t)
    /\ nextId + 1 <= MaxIds
    /\ tabs' = [tabs EXCEPT ![t].pendingLog =
                                <<[list |-> utilsRead(localStore, AuditKey, <<>>),
                                   record |-> AuditRecord(nextId + 1, "seed", "system")]>>]
    /\ nextId' = nextId + 1
    /\ actors' = actors \cup {t}
    /\ UNCHANGED <<localStore, lastLog, lastWrite, notTabVars>>

\* pushAudit / logEvent from the write on
PushAuditWrite(t) ==
    /\ tabs[t].pendingLog # <<>>
    /\ LET pending == tabs[t].pendingLog[1]
           list == pushAudit(pending.list, pending.record)
           store == utilsWrite(localStore, AuditKey, list)
       IN /\ localStore' = store
          /\ lastLog' = <<[tab |-> t,
                           before |-> utilsRead(localStore, AuditKey, <<>>),
                           record |-> pending.record,
                           after |-> utilsRead(store, AuditKey, <<>>)]>>
          /\ lastWrite' = WriteOf(t, AuditKey, pending.list, list, store)
    /\ tabs' = [tabs EXCEPT ![t].pendingLog = <<>>]
    /\ actors' = actors \cup {t}
    /\ UNCHANGED <<nextId, notTabVars>>

\* MaterialsPage mounts: the materials are read into the state
MountMaterials(t) ==
    /\ Quiet(t) /\ ~tabs[t].pendingEffect
    /\ tabs[t].page # "materials"
    /\ tabs' = [tabs EXCEPT ![t] =
                   [BlankTab EXCEPT !.page = "materials",
                                    !.items = utilsRead(localStore, MaterialsKey, <<>>)]]
    /\ actors' = actors \cup {t}
    /\ UNCHANGED <<localStore, nextId, lastLog, lastWrite, notTabVars>>

\* addMaterial: the material is put first in the state and the list is saved
AddMaterialInTab(t) ==
    /\ Quiet(t)
    /\ tabs[t].page = "materials"
    /\ nextId + 1 <= MaxIds
    /\ LET next == <<nextId + 1>> \o tabs[t].items
           store == utilsWrite(localStore, MaterialsKey, next)
       IN /\ tabs' = [tabs EXCEPT ![t].items = next]
          /\ localStore' = store
          /\ lastWrite' = WriteOf(t, MaterialsKey, tabs[t].items, next, store)
    /\ nextId' = nextId + 1
    /\ actors' = actors \cup {t}
    /\ UNCHANGED <<lastLog, notTabVars>>

TabNext ==
    \/ \E t \in Tabs : MountCollections(t)
    \/ \E t \in Tabs : SaveProductsEffect(t)
    \/ \E t \in Tabs : CreateProduct(t)
    \/ \E t \in Tabs : PushAuditRead(t)
    \/ \E t \in Tabs : PushAuditWrite(t)
    \/ \E t \in Tabs : MountMaterials(t)
    \/ \E t \in Tabs : AddMaterialInTab(t)

TabSpec == TabInit /\ [][TabNext]_vars

----------------------------------------------------------------------------
(* The sync specification *)

notSyncVars == <<coreVars, stVars, aiVars, genVars, tabVars, readVars, csvVars, pageVars, pullVars, fontVars, loadVars>>

SyncInit ==
    /\ supabaseCfg = <<>>
    /\ localMaterials \in LocalLists
    /\ remoteMaterials = <<>>
    /\ channel = FALSE
    /\ lastSync = <<>>
    /\ CoreIdle
    /\ StIdle
    /\ AiIdle
    /\ GenIdle
    /\ TabIdle
    /\ ReadIdle
    /\ CsvIdle
    /\ PageIdle
    /\ PullIdle
    /\ FontIdle
    /\ LoadIdle

WithinVersions(remote) == \A i \in 1..Len(remote) : remote[i].version <= MaxVersion

\* what an operation leaves in the history
Synced(op, out) ==
    <<[op |-> op, cfg |-> supabaseCfg, calls |-> out.calls, threw |-> out.threw,
       localBefore |-> localMaterials, localAfter |-> out.local,
       remote |-> out.remote, failed |-> out.threw]>>

\* the settings form saves a configuration
SetSupabaseConfig(cfg) ==
    /\ supabaseCfg' = <<cfg>>
    /\ UNCHANGED <<localMaterials, remoteMaterials, channel, lastSync, notSyncVars>>

\* the materials page changes the local list
WriteLocalMaterials(list) ==
    /\ localMaterials' = list
    /\ UNCHANGED <<supabaseCfg, remoteMaterials, channel, lastSync, notSyncVars>>

PullMaterialsToLocal(err) ==
    LET out == pullMaterialsToLocal(supabaseCfg, localMaterials, remoteMaterials, err)
    IN /\ localMaterials' = out.local
       /\ lastSync' = Synced("pull", out)
       /\ UNCHANGED <<supabaseCfg, remoteMaterials, channel, notSyncVars>>

UpsertMaterial(i, err) ==
    /\ i <= Len(localMaterials)
    /\ LET out == upsertMaterial(supabaseCfg, localMaterials, remoteMaterials,
                                 localMaterials[i], err)
       IN /\ WithinVersions(out.remote)
          /\ remoteMaterials' = out.remote
          /\ lastSync' = Synced("upsert", out)
    /\ UNCHANGED <<supabaseCfg, localMaterials, channel, notSyncVars>>

\* the Push button: the whole local list, which may be empty
UpsertMaterialsBatch(err) ==
    LET out == upsertMaterialsBatch(supabaseCfg, localMaterials, remoteMaterials,
                                    localMaterials, err)
    IN /\ WithinVersions(out.remote)
       /\ remoteMaterials' = out.remote
       /\ lastSync' = Synced("batch", out)
       /\ UNCHANGED <<supabaseCfg, localMaterials, channel, notSyncVars>>

DeleteMaterial(id, err) ==
    LET out == deleteMaterial(supabaseCfg, localMaterials, remoteMaterials, id, err)
    IN /\ remoteMaterials' = out.remote
       /\ lastSync' = Synced("delete", out)
       /\ UNCHANGED <<supabaseCfg, localMaterials, channel, notSyncVars>>

\* subscribeRealtime: a channel is opened if the store is configured
SubscribeMaterialsChanges ==
    /\ ~channel
    /\ channel' = subscribeMaterialsChanges(supabaseCfg)
    /\ lastSync' = Synced("subscribe",
                          SyncOutcome(IF subscribeMaterialsChanges(supabaseCfg) THEN 1 ELSE 0,
                                      FALSE, localMaterials, remoteMaterials))
    /\ UNCHANGED <<supabaseCfg, localMaterials, remoteMaterials, notSyncVars>>

\* the function subscribeMaterialsChanges returned is called
Unsubscribe ==
    /\ channel
    /\ channel' = FALSE
    /\ UNCHANGED <<supabaseCfg, localMaterials, remoteMaterials, lastSync, notSyncVars>>

\* a change of the remote table reaches the subscribed channel: the
\* callback pulls, and swallows a failure
RealtimeChange(err) ==
    /\ channel
    /\ LET out == pullMaterialsToLocal(supabaseCfg, localMaterials, remoteMaterials, err)
       IN /\ localMaterials' = out.local
          /\ lastSync' = <<[Synced("realtime", out)[1] EXCEPT !.threw = FALSE]>>
    /\ UNCHANGED <<supabaseCfg, remoteMaterials, channel, notSyncVars>>

SyncNext ==
    \/ \E cfg \in SupabaseConfigs : SetSupabaseConfig(cfg)
    \/ \E list \in LocalLists : WriteLocalMaterials(list)
    \/ \E err \in BOOLEAN : PullMaterialsToLocal(err)
    \/ \E i \in 1..2, err \in BOOLEAN : UpsertMaterial(i, err)
    \/ \E err \in BOOLEAN : UpsertMaterialsBatch(err)
    \/ \E id \in SyncIds, err \in BOOLEAN : DeleteMaterial(id, err)
    \/ SubscribeMaterialsChanges
    \/ Unsubscribe
    \/ \E err \in BOOLEAN : RealtimeChange(err)

SyncSpec == SyncInit /\ [][SyncNext]_vars

----------------------------------------------------------------------------
(* The store-reading specification *)

notReadVars == <<coreVars, stVars, aiVars, genVars, tabVars, syncVars, csvVars, pageVars, pullVars, fontVars, loadVars>>

ReadInit ==
    /\ rawStore = [k \in RawKeys |-> <<>>]
    /\ lastRead = <<>>
    /\ CoreIdle
    /\ StIdle
    /\ AiIdle
    /\ GenIdle
    /\ TabIdle
    /\ SyncIdle
    /\ CsvIdle
    /\ PageIdle
    /\ PullIdle
    /\ FontIdle
    /\ LoadIdle

\* some text ends up under a key: an older version of the application, the
\* developer tools, another script of the origin
SetItem(key, text) ==
    /\ rawStore' = [rawStore EXCEPT ![key] = <<text>>]
    /\ UNCHANGED <<lastRead, notReadVars>>

ReadBy(by, key, fallback, out) ==
    <<[by |-> by, key |-> key, raw |-> rawStore[key], fallback |-> fallback,
       result |-> out.result, threw |-> out.threw]>>

\* StorageService.getAudit / getProducts: a list is expected
StorageServiceRead(key) ==
    /\ lastRead' = ReadBy("StorageService.read", key, JsonArray,
                          storageRead(rawStore, key, JsonArray))
    /\ UNCHANGED <<rawStore, notReadVars>>

\* utils.read of the collections page: a list is expected
UtilsRead(key) ==
    /\ lastRead' = ReadBy("utils.read", key, JsonArray,
                          storageRead(rawStore, key, JsonArray))
    /\ UNCHANGED <<rawStore, notReadVars>>

\* getLS('price_settings', { productTypes: [], finishTypes: [] })
GetLS ==
    /\ lastRead' = ReadBy("getLS", PrefixWasser("price_settings"), JsonObject,
                          getLS(rawStore, "price_settings", JsonObject))
    /\ UNCHANGED <<rawStore, notReadVars>>

ReadNext ==
    \/ \E key \in RawKeys, text \in RawTexts : SetItem(key, text)
    \/ \E key \in {"wasser_change_log", "wasser_products_data"} : StorageServiceRead(key)
    \/ \E key \in {"wasser_change_log", "wasser_products_data"} : UtilsRead(key)
    \/ GetLS

ReadSpec == ReadInit /\ [][ReadNext]_vars

----------------------------------------------------------------------------
(* The CSV round-trip specification *)

notCsvVars == <<coreVars, stVars, aiVars, genVars, tabVars, syncVars, readVars, pageVars, pullVars, fontVars, loadVars>>

CsvInit ==
    /\ catalogue \in {<<m>> : m \in CsvMaterials}
                        \cup {<<m, [name |-> <<"B", "C">>, article |-> <<"x1">>,
                                    unit |-> <<"m2">>, price |-> 10]>> : m \in CsvMaterials}
    /\ csvFile = <<>>
    /\ reimported = <<>>
    /\ CoreIdle
    /\ StIdle
    /\ AiIdle
    /\ GenIdle
    /\ TabIdle
    /\ SyncIdle
    /\ ReadIdle
    /\ PageIdle
    /\ PullIdle
    /\ FontIdle
    /\ LoadIdle

\* the Export button
ExportMaterialsCsv ==
    /\ Len(catalogue) <= MaxMaterials
    /\ csvFile' = <<exportMaterialsCsv(catalogue)>>
    /\ reimported' = <<>>
    /\ UNCHANGED <<catalogue, notCsvVars>>

\* importCsv of the exported file on a page whose catalogue is empty
ImportExported ==
    /\ csvFile # <<>>
    /\ LET imported == parseCsvText(csvFile[1], 1)
       IN reimported' = <<UnshiftAll(<<>>, imported)>>
    /\ UNCHANGED <<catalogue, csvFile, notCsvVars>>

\* the page that exports removes its first material
RemoveFirstMaterial ==
    /\ Len(catalogue) > 1
    /\ catalogue' = Tail(catalogue)
    /\ UNCHANGED <<csvFile, reimported, notCsvVars>>

CsvNext ==
    \/ ExportMaterialsCsv
    \/ ImportExported
    \/ RemoveFirstMaterial

CsvSpec == CsvInit /\ [][CsvNext]_vars

----------------------------------------------------------------------------
(* The price-list page specification *)

notPageVars == <<coreVars, stVars, aiVars, genVars, tabVars, syncVars, readVars, csvVars, pullVars, fontVars, loadVars>>

PageInit ==
    /\ pageRows \in PageRowsSet
    /\ pageOptions = DefaultPageOptions
    /\ groupsMemo = groups(pageRows, DefaultPageOptions.groupBy)
    /\ legacyGroups = <<>>
    /\ lastTheme = <<>>
    /\ CoreIdle
    /\ StIdle
    /\ AiIdle
    /\ GenIdle
    /\ TabIdle
    /\ SyncIdle
    /\ ReadIdle
    /\ CsvIdle
    /\ PullIdle
    /\ FontIdle
    /\ LoadIdle

\* updateOption: setOptions((prev) => ({ ...prev, ...patch })), and the render
\* that follows, which recomputes the groups memo
UpdateOption(patch) ==
    LET next == [k \in DOMAIN pageOptions |->
                    IF k \in DOMAIN patch THEN patch[k] ELSE pageOptions[k]]
    IN /\ pageOptions' = next
       /\ groupsMemo' = groups(pageRows, next.groupBy)
       /\ UNCHANGED <<pageRows, legacyGroups, lastTheme, notPageVars>>

\* a generation of the page asks for the theme
GetActiveTheme(overridePrimary) ==
    /\ lastTheme' = <<[by |-> "getActiveTheme", key |-> pageOptions.styleKey,
                       accent |-> OrElse(overridePrimary, pageOptions.brandColor),
                       theme |-> getActiveTheme(pageOptions.styleKey, pageOptions.brandColor,
                                                overridePrimary)]>>
    /\ UNCHANGED <<pageRows, pageOptions, groupsMemo, legacyGroups, notPageVars>>

\* WasserPDFGenerator.generateDoc picks its theme
WasserGenerateDoc(template, brandColor) ==
    /\ lastTheme' = <<[by |-> "generateDoc", key |-> template,
                       accent |-> IF brandColor = <<>> THEN "" ELSE TrimColor(brandColor[1]),
                       theme |-> WasserTheme(template, brandColor)]>>
    /\ UNCHANGED <<pageRows, pageOptions, groupsMemo, legacyGroups, notPageVars>>

\* generatePriceListPDF of useSystemData, whose option for types is 'type'
GenerateLegacy ==
    /\ legacyGroups' = <<legacyGroupNames(pageRows,
                                          IF pageOptions.groupBy = "productType" THEN "type"
                                          ELSE pageOptions.groupBy)>>
    /\ UNCHANGED <<pageRows, pageOptions, groupsMemo, lastTheme, notPageVars>>

PageNext ==
    \/ \E patch \in OptionPatches : UpdateOption(patch)
    \/ \E c \in {"", "#ff0000"} : GetActiveTheme(c)
    \/ \E t \in WasserTemplates, c \in {<<>>, <<"  ">>, <<"#ff0000">>} : WasserGenerateDoc(t, c)
    \/ GenerateLegacy

PageSpec == PageInit /\ [][PageNext]_vars

----------------------------------------------------------------------------
(* The overlapping-pulls specification *)

notPullVars == <<coreVars, stVars, aiVars, genVars, tabVars, readVars, csvVars, pageVars, fontVars, loadVars>>

\* a page that has stored a usable configuration and subscribed
PullInit ==
    /\ supabaseCfg = <<ConfiguredSupabase>>
    /\ localMaterials = <<>>
    /\ remoteMaterials = <<>>
    /\ channel = TRUE
    /\ lastSync = <<>>
    /\ pulls = <<>>
    /\ notices = 0
    /\ CoreIdle
    /\ StIdle
    /\ AiIdle
    /\ GenIdle
    /\ TabIdle
    /\ ReadIdle
    /\ CsvIdle
    /\ PageIdle
    /\ FontIdle
    /\ LoadIdle

\* another client writes a row of the table; the server queues a
\* postgres_changes event for the channel
RemoteWrite(row) ==
    /\ notices + Len(pulls) < MaxPulls
    /\ remoteMaterials' = Upserted(remoteMaterials, <<row>>)
    /\ notices' = notices + 1
    /\ UNCHANGED <<supabaseCfg, localMaterials, channel, lastSync, pulls, notPullVars>>

\* the channel's handler calls onChange: the callback of subscribeRealtime
\* runs pullMaterialsToLocal up to its await, the select request is sent
ChangeDelivered ==
    /\ notices > 0
    /\ channel
    /\ isSupabaseEnabled(supabaseCfg)
    /\ getSupabase(supabaseCfg) # <<>>
    /\ notices' = notices - 1
    /\ pulls' = Append(pulls, SentPull)
    /\ UNCHANGED <<supabaseCfg, localMaterials, remoteMaterials, channel, lastSync, notPullVars>>

\* the server answers the select of pull i with the rows it holds now, or
\* with an error
SelectAnswered(i, err) ==
    /\ i \in 1..Len(pulls)
    /\ pulls[i].phase = "sent"
    /\ pulls' = [pulls EXCEPT ![i] = [phase |-> "answered",
                                      data |-> IF err THEN <<>> ELSE remoteMaterials,
                                      error |-> err]]
    /\ UNCHANGED <<supabaseCfg, localMaterials, remoteMaterials, channel, lastSync, notices,
                   notPullVars>>

\* the answer of pull i arrives and pullMaterialsToLocal resumes after its
\* await: it throws on an error (caught by the callback), else writes the list
PullResumed(i) ==
    /\ i \in 1..Len(pulls)
    /\ pulls[i].phase = "answered"
    /\ LET out == pullMaterialsToLocal(supabaseCfg, localMaterials, pulls[i].data, pulls[i].error)
       IN /\ localMaterials' = out.local
          /\ pulls' = [pulls EXCEPT ![i].phase = IF out.threw THEN "failed" ELSE "done"]
    /\ UNCHANGED <<supabaseCfg, remoteMaterials, channel, lastSync, notices, notPullVars>>

PullNext ==
    \/ \E row \in RemoteRows : RemoteWrite(row)
    \/ ChangeDelivered
    \/ \E i \in 1..MaxPulls, err \in BOOLEAN : SelectAnswered(i, err)
    \/ \E i \in 1..MaxPulls : PullResumed(i)

PullSpec == PullInit /\ [][PullNext]_vars

----------------------------------------------------------------------------
(* The font-registration specification *)

notFontVars ==
    <<coreVars, stVars, aiVars, genVars, tabVars, syncVars, readVars, csvVars, pageVars, pullVars,
      loadVars>>

FontInit ==
    /\ loadedFontsHome = {}
    /\ loadedFontsWasser = {}
    /\ fontDoc = <<>>
    /\ CoreIdle
    /\ StIdle
    /\ AiIdle
    /\ GenIdle
    /\ TabIdle
    /\ SyncIdle
    /\ ReadIdle
    /\ CsvIdle
    /\ PageIdle
    /\ PullIdle
    /\ LoadIdle

\* handleGeneratePdf: a new document, registerFont, helvetica when it failed
HomeGenerate(fontName, fontBinary, fetchOk) ==
    LET out == registerFontHome(NewDoc, fontName, loadedFontsHome, fontBinary, fetchOk)
        doc == IF out.ok THEN out.doc ELSE setFont(out.doc, "helvetica")
    IN /\ loadedFontsHome' = out.loadedFonts
       /\ fontDoc' = <<[by |-> "Home", fontName |-> fontName,
                        cached |-> fontName \in loadedFontsHome,
                        vfs |-> doc.vfs, active |-> doc.active, reported |-> out.ok]>>
       /\ UNCHANGED <<loadedFontsWasser, notFontVars>>

\* WasserPDFGenerator.generateDoc: a new document, registerFont with the
\* font of the theme
WasserGenerate(fontName, fetchOk) ==
    LET out == registerFontWasser(NewDoc, fontName, loadedFontsWasser, fetchOk)
    IN /\ loadedFontsWasser' = out.loadedFonts
       /\ fontDoc' = <<[by |-> "Wasser", fontName |-> fontName,
                        cached |-> fontName \in loadedFontsWasser,
                        vfs |-> out.doc.vfs, active |-> out.doc.active, reported |-> out.ok]>>
       /\ UNCHANGED <<loadedFontsHome, notFontVars>>

FontNext ==
    \/ \E n \in FontNames, b \in BOOLEAN, ok \in BOOLEAN : HomeGenerate(n, b, ok)
    \/ \E n \in FontNames, ok \in BOOLEAN : WasserGenerate(n, ok)

FontSpec == FontInit /\ [][FontNext]_vars

----------------------------------------------------------------------------
(* The script-loader specification *)

notLoadVars ==
    <<coreVars, stVars, aiVars, tabVars, syncVars, readVars, csvVars, pageVars, pullVars,
      fontVars>>

LoadInit ==
    /\ cdn \in Networks
    /\ ensureLog = <<>>
    /\ genEnv = <<>>
    /\ win = NothingLoaded
    /\ loadingPromise = "none"
    /\ genOut = <<>>
    /\ CoreIdle
    /\ StIdle
    /\ AiIdle
    /\ TabIdle
    /\ SyncIdle
    /\ ReadIdle
    /\ CsvIdle
    /\ PageIdle
    /\ PullIdle
    /\ FontIdle

\* the network changes between two calls
NetworkChanges(n) ==
    /\ n # cdn
    /\ cdn' = n
    /\ UNCHANGED <<ensureLog, genVars, notLoadVars>>

\* a call of ensureJsPdf, awaited to its end
CallEnsureJsPdf ==
    LET ensured == ensureJsPdf(win, loadingPromise, cdn)
    IN /\ Len(ensureLog) < MaxCalls
       /\ win' = ensured.win
       /\ loadingPromise' = ensured.loadingPromise
       /\ ensureLog' = Append(ensureLog, [ok |-> ensured.ok,
                                          reachable |-> cdn.cdnJsPdf /\ cdn.cdnAutoTable])
       /\ UNCHANGED <<cdn, genEnv, genOut, notLoadVars>>

LoadNext ==
    \/ \E n \in Networks : NetworkChanges(n)
    \/ CallEnsureJsPdf

LoadSpec == LoadInit /\ [][LoadNext]_vars

----------------------------------------------------------------------------
(* The price-settings specification *)

notStVars == <<csvVars, readVars, syncVars, coreVars, aiVars, genVars, tabVars, pageVars, pullVars, fontVars, loadVars>>

StInit ==
    /\ ls \in [LsKeys -> {<<>>, <<DemoPriceSettings>>}]
    /\ route = NoPage
    /\ pageSettings = <<>>
    /\ pagePrice = <<>>
    /\ shownPrice = <<>>
    /\ saved = <<>>
    /\ CoreIdle
    /\ AiIdle
    /\ GenIdle
    /\ TabIdle
    /\ SyncIdle
    /\ ReadIdle
    /\ CsvIdle
    /\ PageIdle
    /\ PullIdle
    /\ FontIdle
    /\ LoadIdle

\* the settings page mounts: useState(() => readLS(LS_KEYS.price, seedPrice()))
OpenSettings ==
    /\ route # "settings"
    /\ route' = "settings"
    /\ pageSettings' = <<readLS(ls, PriceDataKey, seedPrice)>>
    /\ pagePrice' = <<>>
    /\ UNCHANGED <<ls, shownPrice, saved, notStVars>>

\* the markup and labour fields of a product type
PatchPriceType(markup, workCost) ==
    /\ route = "settings"
    /\ pageSettings' = <<patchPriceType(pageSettings[1], "pt1",
                                        sanitizeNumber(markup, 0, 500),
                                        sanitizeNumber(workCost, 0, 0 - 1))>>
    /\ UNCHANGED <<ls, route, pagePrice, shownPrice, saved, notStVars>>

\* the markup field of a finish type
PatchFinishType(markup) ==
    /\ route = "settings"
    /\ pageSettings' = <<patchFinishType(pageSettings[1], "ft1", sanitizeNumber(markup, 0, 500))>>
    /\ UNCHANGED <<ls, route, pagePrice, shownPrice, saved, notStVars>>

\* saveAll: writeLS(LS_KEYS.price, settings)
SaveAll ==
    /\ route = "settings"
    /\ ls' = writeLS(ls, PriceDataKey, pageSettings[1])
    /\ saved' = pageSettings
    /\ shownPrice' = <<>>
    /\ UNCHANGED <<route, pageSettings, pagePrice, notStVars>>

\* resetDefaults, the confirm dialog accepted
ResetDefaults ==
    /\ route = "settings"
    /\ pageSettings' = <<seedPrice>>
    /\ ls' = writeLS(ls, PriceDataKey, seedPrice)
    /\ saved' = <<seedPrice>>
    /\ shownPrice' = <<>>
    /\ UNCHANGED <<route, pagePrice, notStVars>>

\* the products page mounts: it reads the settings once, writes them back in
\* its effect, and prices the listed product with its price state
OpenProducts ==
    /\ route # "products"
    /\ route' = "products"
    /\ pageSettings' = <<>>
    /\ LET read == readLS(ls, PriceDataKey, seedPrice)
       IN /\ pagePrice' = <<read>>
          /\ ls' = writeLS(ls, PriceDataKey, read)
          /\ shownPrice' = <<[page |-> "products",
                              price |-> calcPriceProducts(ListedProduct, ListedMaterials, read)]>>
    /\ UNCHANGED <<saved, notStVars>>

\* the price-list page renders: it reads getLS('price_settings', ...) and
\* prices the listed product
RenderPriceList ==
    /\ route' = "pricelist"
    /\ pageSettings' = <<>>
    /\ pagePrice' = <<>>
    /\ shownPrice' = <<[page |-> "pricelist",
                        price |-> calcPrice(ListedProduct, ListedMaterials,
                                            readLS(ls, PriceListKey, EmptyPriceSettings))]>>
    /\ UNCHANGED <<ls, saved, notStVars>>

\* the demo-data button of the price-list page
LoadDemo ==
    /\ route = "pricelist"
    /\ ls' = writeLS(ls, PriceListKey, DemoPriceSettings)
    /\ UNCHANGED <<route, pageSettings, pagePrice, shownPrice, saved, notStVars>>

StNext ==
    \/ OpenSettings
    \/ \E m \in TypedMarkups, w \in TypedWorkCosts : PatchPriceType(m, w)
    \/ \E m \in TypedMarkups : PatchFinishType(m)
    \/ ResetDefaults
    \/ SaveAll
    \/ OpenProducts
    \/ RenderPriceList
    \/ LoadDemo

StSpec == StInit /\ [][StNext]_vars

----------------------------------------------------------------------------
(* Claims about the price calculators *)

PriceListCalculators == {"calcPrice", "calculateProductPrice"}

\* the rule a product refers to, seen as plain numbers (0 when nothing matches)
TypeRule == FindById(settings.productTypes, product.product_type_id)
FinishRule == FindById(settings.finishTypes, product.finish_type_id)
TypeMarkup == IF TypeRule = <<>> THEN 0 ELSE TypeRule[1].markup
TypeLabor == IF TypeRule = <<>> THEN 0 ELSE TypeRule[1].workCost * Unit
FinishMarkup == IF FinishRule = <<>> THEN 0 ELSE FinishRule[1].markup

\* base x (1 + t/100) x (1 + f/100) for a base that is a whole number of Units
Chained(base, t, f) == (base \div Unit) * (100 + t) * (100 + f)

FormulaHolds(r) ==
    /\ r.workCost = TypeLabor
    /\ r.basePrice = r.materialCost + r.workCost
    /\ r.finalPrice = Chained(r.basePrice, TypeMarkup, FinishMarkup)

ExampleHolds(r) ==
    (/\ r.materialCost = 850 * Unit
     /\ r.workCost = 1000 * Unit
     /\ TypeMarkup = 10
     /\ FinishMarkup = 50)
    => /\ r.basePrice = 1850 * Unit
       /\ ApplyMarkup(r.basePrice, TypeMarkup) = 2035 * Unit
       /\ 10 * r.finalPrice = 30525 * Unit

\* C1 as stated: for every product the price-list calculators return
\* basePrice = materialCost + laborCost of the matched type rule and
\* finalPrice = basePrice x (1 + typeMarkup/100) x (1 + finishMarkup/100).
C1_FormulaForEveryProduct ==
    priceResult.by \in PriceListCalculators =>
        FormulaHolds(priceResult.price) /\ ExampleHolds(priceResult.price)

\* C1 amended: the formula (and the 850/1000/10 %/50 % example) holds for every
\* product whose tech card is not empty; for an empty tech card the price-list
\* calculators return zero for all four amounts, whatever rules match.
C1_FormulaForNonEmptyTechCard ==
    priceResult.by \in PriceListCalculators =>
        /\ product.tech_card # <<>> =>
              FormulaHolds(priceResult.price) /\ ExampleHolds(priceResult.price)
        /\ product.tech_card = <<>> => priceResult.price = ZeroPrice

C1_Witness ==
    /\ priceResult.by = "calcPrice"
    /\ product.tech_card # <<>>
    /\ priceResult.price.materialCost = 850 * Unit
    /\ priceResult.price.workCost = 1000 * Unit
    /\ TypeMarkup = 10 /\ FinishMarkup = 50
    /\ 10 * priceResult.price.finalPrice = 30525 * Unit

\* what a tech-card line contributes when only resolved materials count
ResolvedLineCost(it) ==
    IF \E k \in 1..Len(materials) : materials[k].id = it.materialId
    THEN NumberOrZero(it.quantity)
           * FindById(materials, it.materialId)[1].price * Unit
    ELSE 0

\* C2: every missing reference degrades to a zero contribution: an unresolved
\* tech-card line adds 0 to materialCost, an unmatched product type gives
\* laborCost 0 and no type markup, an unmatched finish type gives no finish markup.
C2_MissingReferencesContributeZero ==
    priceResult.by # "none" =>
        LET r == priceResult.price
            tc == product.tech_card
        IN /\ r.materialCost = SumSeq([i \in 1..Len(tc) |-> ResolvedLineCost(tc[i])])
           /\ TypeRule = <<>> =>
                 /\ r.workCost = 0
                 /\ r.basePrice = r.materialCost
                 /\ r.finalPrice = (r.basePrice \div 100) * (100 + FinishMarkup)
           /\ FinishRule = <<>> =>
                 r.finalPrice = ((r.materialCost + r.workCost) \div 100) * (100 + TypeMarkup)

C2_Witness ==
    /\ priceResult.by # "none"
    /\ \E i \in 1..Len(product.tech_card) :
          /\ product.tech_card[i].materialId = GoneId
          /\ NumberOrZero(product.tech_card[i].quantity) > 0
    /\ \E i \in 1..Len(product.tech_card) :
          ResolvedLineCost(product.tech_card[i]) > 0
    /\ TypeRule = <<>>
    /\ FinishRule = <<>>
    /\ priceResult.price.finalPrice = priceResult.price.materialCost

\* C3 as stated: for a product whose tech card is empty every calculator
\* returns materialCost, laborCost, basePrice and finalPrice equal to zero.
C3_EmptyTechCardAllZero ==
    (priceResult.by # "none" /\ product.tech_card = <<>>) =>
        priceResult.price = ZeroPrice

\* the calculator named by a result, applied to another product
CalcBy(by, p) ==
    IF by = "calcPrice" THEN calcPrice(p, materials, settings)
    ELSE IF by = "calculateProductPrice" THEN calculateProductPrice(p, materials, settings)
    ELSE calcPriceProducts(p, materials, settings)

WithQuantity(p, i, q) ==
    [p EXCEPT !.tech_card[i].quantity = <<q>>]

\* C4: raising the quantity of one tech-card line, all else equal and all
\* material prices non-negative, never lowers finalPrice.
C4_FinalPriceMonotoneInQuantity ==
    priceResult.by # "none" =>
        \A i \in 1..Len(product.tech_card) :
            \A q \in 0..(MaxQty + 1) :
                q > NumberOrZero(product.tech_card[i].quantity) =>
                    CalcBy(priceResult.by, WithQuantity(product, i, q)).finalPrice
                        >= priceResult.price.finalPrice

C4_Witness ==
    /\ priceResult.by # "none"
    /\ \E i \in 1..Len(product.tech_card) :
          /\ NumberOrZero(product.tech_card[i].quantity) < MaxQty
          /\ CalcBy(priceResult.by, WithQuantity(product, i, MaxQty)).finalPrice
                > priceResult.price.finalPrice
    /\ TypeMarkup = 500

----------------------------------------------------------------------------
(* Claims about the price-list document *)

RenderedDocs ==
    {d[1] : d \in {x \in {pdfDoc, printDoc, wasserDoc} : x # <<>>}}

\* how often row id i occurs in the bodies of the tables of a document
Occurrences(doc, i) ==
    Cardinality({<<t, k>> \in (1..Len(doc.tables)) \X (1..MaxRows + 1) :
                    k <= Len(doc.tables[t].body) /\ doc.tables[t].body[k] = i})

\* C5: in every grouping mode the grand total equals the sum of the per-group
\* subtotals, which equals the sum of finalPrice over all input rows, and
\* every row is counted in exactly one group.
C5_GrandTotalIsSumOfSubtotals ==
    \A doc \in RenderedDocs :
        /\ \A i \in 1..Len(computed) : Occurrences(doc, i) = 1
        /\ \A t \in 1..Len(doc.tables) :
              doc.tables[t].groupTotal =
                  SumSeq([k \in 1..Len(doc.tables[t].body) |->
                             computed[doc.tables[t].body[k]].finalPrice])
        /\ doc.grandTotal # <<>> =>
              /\ doc.grandTotal[1] =
                    SumSeq([t \in 1..Len(doc.tables) |-> doc.tables[t].groupTotal])
              /\ doc.grandTotal[1] = SumSeq([i \in 1..Len(computed) |-> computed[i].finalPrice])

C5_Witness ==
    /\ pdfDoc # <<>>
    /\ options.groupBy = "productType"
    /\ Len(pdfDoc[1].tables) = 2
    /\ \E t \in 1..2 : pdfDoc[1].tables[t].body = <<1, 3>>
    /\ pdfDoc[1].grandTotal # <<>>
    /\ pdfDoc[1].grandTotal[1] > pdfDoc[1].tables[1].groupTotal
    /\ pdfDoc[1].tables[2].groupTotal > 0

\* C6: for the same rows and options the PDF renderer and the HTML print view
\* produce the same groups in the same order, the same columns in the same
\* order, the same subtotals and grand total, and show a subtotal or
\* grand-total row under the same conditions.
C6_PdfAndPrintViewAgree ==
    (pdfDoc # <<>> /\ printDoc # <<>>) =>
        /\ pdfDoc[1].cols = printDoc[1].cols
        /\ pdfDoc[1].tables = printDoc[1].tables
        /\ pdfDoc[1].summary = printDoc[1].summary
        /\ pdfDoc[1].grandTotal # <<>> => pdfDoc[1].grandTotal = printDoc[1].grandTotal

C6_Witness ==
    /\ pdfDoc # <<>> /\ printDoc # <<>>
    /\ options.groupBy = "collection"
    /\ Len(printDoc[1].tables) = 2
    /\ printDoc[1].summary # <<>>
    /\ printDoc[1].tables[1].foot # <<>>
    /\ Len(printDoc[1].cols) > 1

----------------------------------------------------------------------------
(* Claims about the collection editor *)

\* C7: after any sequence of reorder drops followed by Apply the stored
\* productOrder holds exactly the ids it held before, each exactly once, in
\* the order last shown in the editor.
C7_ReorderKeepsIds ==
    (applied # <<>> /\ applied[1].movesOnly) =>
        /\ Range(applied[1].after) = Range(applied[1].before)
        /\ NoDuplicates(applied[1].after)
        /\ Len(applied[1].after) = Len(applied[1].before)
        /\ inCollection(applied[1].after) = applied[1].shown
        /\ ~editor.open => productOrder = applied[1].after

C7_Witness ==
    /\ applied # <<>>
    /\ applied[1].movesOnly
    /\ Len(applied[1].before) = MaxProducts + 1
    /\ applied[1].after # applied[1].before
    /\ applied[1].after[1] # applied[1].before[1]
    /\ productOrder = applied[1].after

----------------------------------------------------------------------------
(* Claims about the material catalogue *)

UniqueArticles(list) ==
    \A i, j \in 1..Len(list) : ArticleKey(list[i]) = ArticleKey(list[j]) => i = j

\* C8 as stated: after an import in which two lines carry the same article
\* (ignoring case) exactly one material has that article, with the name, unit
\* and price of the later line, whether or not the article was in the
\* catalogue before.
C8_SameArticleImportedOnce ==
    (lastImport # <<>> /\ lastImport[1].uniqueBefore) =>
        LET imp == lastImport[1].imported
        IN \A i, j \in 1..Len(imp) :
              (/\ i < j
               /\ ArticleKey(imp[i]) = ArticleKey(imp[j])
               /\ ArticleKey(imp[j]) # ""
               /\ \A k \in (j + 1)..Len(imp) : ArticleKey(imp[k]) # ArticleKey(imp[j]))
              => /\ Cardinality({k \in 1..Len(items) :
                                    ArticleKey(items[k]) = ArticleKey(imp[j])}) = 1
                 /\ \A k \in 1..Len(items) :
                       ArticleKey(items[k]) = ArticleKey(imp[j]) =>
                          /\ items[k].name = imp[j].name
                          /\ items[k].unit = imp[j].unit
                          /\ items[k].price = imp[j].price

\* C9 as stated: after any sequence of manual adds, CSV imports and deletes no
\* two materials of the catalogue have articles that are equal ignoring case.
C9_ArticlesUniqueIgnoringCase == UniqueArticles(items)

----------------------------------------------------------------------------
(* Claims about the tech card *)

\* C10 as stated: after any sequence of tech-card operations (add position,
\* edit quantity, remove position, Excel import, applying AI suggestions) the
\* tech card has at most one line per materialId.
C10_OneLinePerMaterial ==
    \A i, j \in 1..Len(value) : value[i].materialId = value[j].materialId => i = j

----------------------------------------------------------------------------
(* Claims about the price settings *)

\* C11 as stated: after a rule is edited and saved on the settings page,
\* every later price computation, on the products page and on the
\* price-list page, for a product that references the rule uses the saved
\* markup and labour cost.
C11_SavedRulesUsedByEveryPage ==
    (saved # <<>> /\ shownPrice # <<>>) =>
        shownPrice[1].price =
            (IF shownPrice[1].page = "products"
             THEN calcPriceProducts(ListedProduct, ListedMaterials, saved[1])
             ELSE calcPrice(ListedProduct, ListedMaterials, saved[1]))

----------------------------------------------------------------------------
(* Claims about the AI service *)

\* the gateway call failed: fetch rejected, or a status outside 2xx (which
\* covers the 501 of a missing key and the 500 of an upstream failure)
GatewayFailed == resp # <<>> /\ (resp[1].kind = "rejected" \/ resp[1].status \notin 200..299)

\* C12: whenever the gateway fails, generateCollectionDescription returns a
\* non-empty string and suggestTechCard a non-empty list of items, each with
\* a name and a quantity > 0, both produced by the local fallback, and
\* neither call throws.
C12_FallbackOnGatewayFailure ==
    (aiResult # <<>> /\ GatewayFailed) =>
        LET input == aiReq[1].input
            r == aiResult[1]
        IN /\ ~r.threw
           /\ ~r.remote.ok
           /\ r.value # <<>>
           /\ input.task = "collection_description" =>
                 r.value = collectionDescription(input.name, input.group, input.productNames)
           /\ input.task = "techcard_suggest" =>
                 /\ \A i \in 1..Len(r.value) : r.value[i].name # "" /\ r.value[i].quantity > 0
                 /\ r.value = techCardSuggest(input.text, input.catalog)

C12_Witness ==
    /\ aiResult # <<>>
    /\ resp[1].kind = "json" /\ resp[1].status = 501
    /\ aiReq[1].input.task = "techcard_suggest"
    /\ aiReq[1].input.catalog = <<>>
    /\ Len(aiResult[1].value) = 3

\* the time after which the call is to be aborted, as the claim states it
StatedDeadline ==
    LET configured == IF aiReq[1].timeoutMs = <<>> THEN 20 ELSE aiReq[1].timeoutMs[1]
    IN IF configured > 5 THEN configured ELSE 5

\* C13: the remote call never waits beyond max(5 s, configured timeout), the
\* timeout defaulting to 20 s; at that time it is aborted, the request is
\* reported as failed (ok: false), and the caller returns the local fallback.
C13_AbortAtDeadlineThenFallback ==
    /\ gw = "waiting" => clock <= StatedDeadline
    /\ gw = "aborted" =>
          /\ clock = StatedDeadline
          /\ resp # <<>> /\ resp[1].body.ok = FALSE
          /\ aiResult # <<>> =>
                LET input == aiReq[1].input
                IN /\ aiResult[1].remote.ok = FALSE
                   /\ aiResult[1].value =
                         (IF input.task = "collection_description"
                          THEN collectionDescription(input.name, input.group, input.productNames)
                          ELSE techCardSuggest(input.text, input.catalog))

C13_Witness ==
    /\ gw = "aborted"
    /\ aiReq[1].timeoutMs = <<2>>
    /\ clock = 5
    /\ aiResult # <<>>
    /\ aiReq[1].input.task = "collection_description"

----------------------------------------------------------------------------
(* Claims about PDF generation *)

\* the rendering engine and its table plugin can both be had
EngineAvailable == genEnv[1].cdnJsPdf /\ genEnv[1].cdnAutoTable /\ genEnv[1].attaches

\* C14: if the rendering engine or its table-layout plugin is unavailable,
\* generation fails as a whole with an explicit error and no document, not
\* even a partial one, is saved or returned.
C14_NoEngineNoDocument ==
    (genOut # <<>> /\ genOut[1].by \in {"handleGeneratePdf", "generateAndSave"}
       /\ ~EngineAvailable) =>
        /\ genOut[1].error # <<>>
        /\ genOut[1].saved = <<>>

C14_Witness ==
    /\ genOut # <<>>
    /\ genOut[1].by = "handleGeneratePdf"
    /\ genEnv[1].cdnJsPdf /\ genEnv[1].cdnAutoTable /\ ~genEnv[1].attaches
    /\ genEnv[1].includeCover
    /\ genOut[1].error = <<"autoTable">>

\* C15 as stated: a font that cannot be loaded never makes generation fail:
\* every generator falls back to the default font, produces the document,
\* and reports a warning rather than an error.
C15_FontFailureIsNotFatal ==
    (genOut # <<>> /\ ~genEnv[1].fontOk
       /\ (EngineAvailable \/ genOut[1].by = "generatePriceListPDF")) =>
        /\ genOut[1].error = <<>>
        /\ genOut[1].saved # <<>>
        /\ genOut[1].saved[1].font = "helvetica"
        /\ genOut[1].warning # <<>>

\* how the generation that ended in genOut would have ended had every image
\* been fetched
WithImagesFetched ==
    LET e == [genEnv[1] EXCEPT !.logoOk = TRUE, !.imageOk = {"u1", "u2"}]
        ensured == [ok |-> genOut[1].error \notin {<<"load">>}, win |-> win,
                    loadingPromise |-> loadingPromise]
    IN IF genOut[1].by = "handleGeneratePdf" THEN handleGeneratePdfOutcome(e, ensured)
       ELSE IF genOut[1].by = "generateAndSave" THEN generateAndSave(e, ensured)
       ELSE generatePriceListPDF(e)

\* C16: a failed fetch of the logo or of a row thumbnail never fails the
\* generation: the document is produced with all rows, and the affected
\* cell or logo is rendered without the image.
C16_ImageFailureIsNotFatal ==
    (genOut # <<>> /\ WithImagesFetched.saved # <<>>) =>
        /\ genOut[1].saved # <<>>
        /\ genOut[1].error = <<>>
        /\ LET doc == genOut[1].saved[1]
               e == genEnv[1]
           IN /\ [i \in 1..Len(doc.rows) |-> doc.rows[i].id]
                    = [i \in 1..Len(e.rows) |-> e.rows[i].id]
              /\ \A i \in 1..Len(doc.rows) :
                    e.rows[i].imageUrl \notin e.imageOk => ~doc.rows[i].image
              /\ (e.logoUrl /\ ~e.logoOk) => (~doc.coverLogo /\ ~doc.footerLogo)

C16_Witness ==
    /\ genOut # <<>>
    /\ genOut[1].by = "handleGeneratePdf"
    /\ genOut[1].saved # <<>>
    /\ genEnv[1].imageColumn /\ genEnv[1].imageOk = {"u1"}
    /\ genEnv[1].logoUrl /\ ~genEnv[1].logoOk
    /\ genOut[1].saved[1].rows[1].image
    /\ ~genOut[1].saved[1].rows[3].image

----------------------------------------------------------------------------
(* Claims about the quantities of the tech card *)

\* C17: after any sequence of tech-card operations (add position, quantity
\* edit, Excel import, applying AI suggestions) every stored line of the
\* card has a quantity that is not negative.
C17_QuantitiesNotNegative ==
    \A i \in 1..Len(value) : value[i].quantity >= 0

\* a card of two lines, one of them edited down to the quantity 0
C17_Witness ==
    /\ Len(value) = 2
    /\ \E i \in 1..2 : value[i].quantity = 0
    /\ \E i \in 1..2 : value[i].quantity = MaxCardQty

----------------------------------------------------------------------------
(* Claims about the shared local store *)

C19_LastWriteWins ==
    lastWrite # <<>> =>
        LET w == lastWrite[1]
        IN /\ w.after = w.written
           /\ Range(w.written) \ Range(w.basis) \subseteq
                  {x \in Range(w.written) : x \notin Range(w.before)}
           /\ \A x \in Range(w.before) : x \notin Range(w.basis) => x \notin Range(w.after)

\* a write that dropped what the other tab had stored since the writer's read
C19_Witness ==
    /\ lastWrite # <<>>
    /\ Cardinality(actors) = 2
    /\ \E x \in Range(lastWrite[1].before) : x \notin Range(lastWrite[1].after)
    /\ localStore[lastWrite[1].key] = <<lastWrite[1].written>>

----------------------------------------------------------------------------
(* Claims about the synchronisation *)

\* the configuration an operation ran under does not name a usable remote
\* store: sync disabled, or URL or credential missing
NotConfigured(stored) ==
    \/ stored = <<>>
    \/ ~stored[1].enabled
    \/ stored[1].url = ""
    \/ stored[1].anonKey = ""

\* C20: when the remote store is not configured, every sync operation
\* (pull, single upsert, batch upsert, delete, subscribe) is a silent no-op:
\* no remote call, no error, the local material list unchanged.
C20_UnconfiguredSyncIsNoOp ==
    (lastSync # <<>> /\ NotConfigured(lastSync[1].cfg)) =>
        /\ lastSync[1].calls = 0
        /\ ~lastSync[1].threw
        /\ lastSync[1].localAfter = lastSync[1].localBefore

\* a pull under a configuration that has the flag off but URL and key set,
\* with a remote table that differs from the local list
C20_Witness ==
    /\ lastSync # <<>>
    /\ lastSync[1].op = "pull"
    /\ lastSync[1].cfg # <<>>
    /\ ~lastSync[1].cfg[1].enabled
    /\ lastSync[1].cfg[1].url # "" /\ lastSync[1].cfg[1].anonKey # ""
    /\ remoteMaterials # <<>>
    /\ Len(localMaterials) # Len(remoteMaterials)

----------------------------------------------------------------------------
(* Claims about reading the local store *)

\* the stored item is missing, is not JSON, or is JSON of another shape
\* than the fallback
MissingOrMalformed(raw, fallback) ==
    \/ raw = <<>>
    \/ JsonParse(raw[1]) = <<>>
    \/ JsonParse(raw[1])[1].type # fallback.type

\* C22 as stated: every read of the local store returns the caller's
\* fallback, without raising, whenever the stored data is missing or
\* malformed, be it text that is not JSON or JSON of an unexpected shape
\* such as null where a list is expected.
C22_MalformedReadsFallBack ==
    (lastRead # <<>> /\ MissingOrMalformed(lastRead[1].raw, lastRead[1].fallback)) =>
        /\ lastRead[1].result = lastRead[1].fallback
        /\ ~lastRead[1].threw

----------------------------------------------------------------------------
(* Claims about the CSV round trip *)

\* the materials of a list by name, article, unit and price, with the
\* number of times each occurs
MaterialBag(list, Price(_)) ==
    LET Key(m) == <<m.name, m.article, m.unit, Price(m)>>
        keys == {Key(list[i]) : i \in 1..Len(list)}
    IN [k \in keys |-> Cardinality({i \in 1..Len(list) : Key(list[i]) = k})]

\* C23 as stated: exporting the catalogue to CSV and importing that file
\* into an empty catalogue yields exactly the exported materials, with the
\* same name, article, unit and price: the header row is no material, and a
\* field with a comma is read back as one unchanged field.
C23_CsvRoundTrip ==
    (reimported # <<>> /\ csvFile = <<exportMaterialsCsv(catalogue)>>) =>
        MaterialBag(reimported[1], LAMBDA m : m.price)
            = MaterialBag(catalogue, LAMBDA m : <<m.price>>)

----------------------------------------------------------------------------
(* Claims about the price-list page *)

\* the distinct values of a sequence in the order of their first occurrence
FirstSeen(ks) ==
    LET firsts == {i \in 1..Len(ks) : \A j \in 1..(i - 1) : ks[j] # ks[i]}
        Nth(n) == CHOOSE i \in firsts : Cardinality({j \in firsts : j < i}) = n - 1
    IN [n \in 1..Cardinality(firsts) |-> ks[Nth(n)]]

\* C24: when rows are grouped by type or by collection, the groups come in
\* the order in which their keys are first met in the rows, not in
\* alphabetical order.
C24_GroupsInFirstSeenOrder ==
    LET KeyOf(row) == IF pageOptions.groupBy = "productType" THEN TypeKey(row)
                      ELSE CollectionKey(row)
        seen == FirstSeen([i \in 1..Len(pageRows) |-> KeyOf(pageRows[i])])
    IN pageOptions.groupBy \in {"productType", "collection"} =>
          /\ [i \in 1..Len(groupsMemo) |-> groupsMemo[i].key] = seen
          /\ \A i \in 1..Len(groupsMemo) :
                RowIds(groupsMemo[i].items) =
                    RowIds(SelectSeq(pageRows, LAMBDA r : KeyOf(r) = seen[i]))
          /\ (legacyGroups # <<>> /\ legacyGroups[1] # <<>>
                /\ legacyGroups[1][1].prefix =
                     (IF pageOptions.groupBy = "productType" THEN "type: " ELSE "collection: "))
                => [i \in 1..Len(legacyGroups[1]) |-> legacyGroups[1][i].label] = seen

\* rows of type B, A, B: the group of B comes before the group of A, on the
\* page and in the legacy document
C24_Witness ==
    /\ pageOptions.groupBy = "productType"
    /\ Len(pageRows) = 3
    /\ pageRows[1].productType = "B" /\ pageRows[2].productType = "A"
    /\ pageRows[3].productType = "B"
    /\ groupsMemo[1].key = "B" /\ groupsMemo[2].key = "A"
    /\ legacyGroups # <<>>
    /\ legacyGroups[1][1].label = "B"

\* C25: overriding the accent colour changes only the primary colour of the
\* theme: header style, table style, table colours, text colours, font
\* and font sizes are those of the canned theme.
C25_AccentChangesOnlyPrimary ==
    lastTheme # <<>> =>
        LET l == lastTheme[1]
        IN IF l.by = "getActiveTheme"
           THEN /\ [l.theme EXCEPT !.colors.primary = THEMES[l.key].colors.primary]
                      = THEMES[l.key]
                /\ l.accent # "" => l.theme.colors.primary = l.accent
           ELSE /\ [l.theme EXCEPT !.brand = WasserThemes[l.key].brand] = WasserThemes[l.key]
                /\ l.accent # "" => l.theme.brand = l.accent

\* a theme with a filled table head generated under an accent colour
C25_Witness ==
    /\ lastTheme # <<>>
    /\ lastTheme[1].by = "getActiveTheme"
    /\ lastTheme[1].key = "executiveBlue"
    /\ lastTheme[1].accent = "#ff0000"
    /\ lastTheme[1].theme.colors.primary = "#ff0000"
    /\ lastTheme[1].theme.colors.table.headBg = "#1d4ed8"

----------------------------------------------------------------------------
(* Claims about the agreement of the price calculators *)

\* C26 as stated: the three price calculators return the same materialCost,
\* laborCost, basePrice and finalPrice for the same product, materials and
\* rules, a product with an empty tech card and a rule with a positive
\* labour cost included.
C26_CalculatorsAgree ==
    priceResult.by # "none" =>
        /\ priceResult.price = calcPrice(product, materials, settings)
        /\ priceResult.price = calcPriceProducts(product, materials, settings)
        /\ priceResult.price = calculateProductPrice(product, materials, settings)

----------------------------------------------------------------------------
(* Claims about a drop on a card of the collection editor *)

\* id stands immediately before targetId in order
ImmediatelyBefore(order, id, targetId) ==
    \E i \in 1..(Len(order) - 1) : order[i] = id /\ order[i + 1] = targetId

\* C27 as stated: a drop of a dragged product on a card of the list places
\* the dragged id immediately before that card's id in the editor's order,
\* although the same drop event also reaches onDropToListEnd of the list.
C27_DropPlacesBeforeTarget ==
    [][\A targetId \in ProductIds :
          (/\ editor.draggingId # NoDrag
           /\ editor.draggingId # targetId
           /\ DropOnItem(targetId))
             => ImmediatelyBefore(editor'.order, editor.draggingId, targetId)]_vars

----------------------------------------------------------------------------
(* Claims about overlapping pulls *)

\* C28 as stated: when the pulls started by several notifications overlap,
\* then once every started pull has completed the local list is the remote
\* snapshot read by the pull that started last; a pull that started earlier
\* and finished later does not overwrite the newer data.
C28_LatestPullWins ==
    (/\ pulls # <<>>
     /\ notices = 0
     /\ \A i \in 1..Len(pulls) : pulls[i].phase = "done")
        => LET snapshot == pulls[Len(pulls)].data
           IN localMaterials = [i \in 1..Len(snapshot) |-> rowToLocal(snapshot[i])]

----------------------------------------------------------------------------
(* Claims about font registration *)

\* C29 as stated: whenever registerFont reports success for a document, the
\* custom font has been registered in that document before it is selected,
\* also for the second and later documents of a session that use a font
\* name an earlier document used.
C29_ReportedFontIsRegistered ==
    (fontDoc # <<>> /\ fontDoc[1].reported) =>
        /\ fontDoc[1].fontName \in fontDoc[1].vfs
        /\ fontDoc[1].active = fontDoc[1].fontName

----------------------------------------------------------------------------
(* Claims about the script loader *)

\* C30 as stated: after a call of ensureJsPdf has failed because a script
\* could not be loaded, a later call made while the scripts are reachable
\* loads them and succeeds; the first failure is not remembered forever.
C30_LoaderRetriesAfterFailure ==
    \A i, j \in 1..Len(ensureLog) :
        (i < j /\ ~ensureLog[i].ok /\ ensureLog[j].reachable) => ensureLog[j].ok

====
